---- MODULE Spec2Model ----
(***************************************************************************)
(* Model of testwindowtabs: the Button / ToggleButton message handlers     *)
(* (src/src/button.rs), the chrome window's non-client hit test and child  *)
(* layout (src/src/main.rs) and the rectangle helpers (src/src/wutils.rs). *)
(*                                                                         *)
(* Spec       one control (Button or ToggleButton) driven by the platform: *)
(*            mouse messages, paint, the flash tick and its timer thread.  *)
(* SpecChrome  the chrome window's layout: WM_CREATE, WM_SIZE.              *)
(* SpecHitTest the chrome window's WM_NCHITTEST, after WM_CREATE.           *)
(* SpecRects  get_titlebar_button_rects applied to arbitrary rectangles.   *)
(* SpecRegistry  register_class calls against the ComponentRegistry.        *)
(* SpecTabBar  the tab strip: WM_CREATE, WM_SIZE, add_item (tab_bar.rs).     *)
(* SpecApp    the chrome buttons' click wiring and the window's close.      *)
(* SpecFlash  Spec under fair delivery of ticks, wake-ups and time.         *)
(* SpecConstruct  the four constructors against failing platform calls.    *)
(* SpecDrop   one control's Box and native window under the flash.         *)
(* SpecDispatch  the handlers in execution on the UI thread.               *)
(* SpecFail   platform calls that fail, on the UI and the timer thread.   *)
(* SpecLoop   SpecApp with the exit of main's message loop, under fairness.*)
(* SpecWndProc  the window procedures and the stored component pointer.   *)
(***************************************************************************)
EXTENDS Integers, Sequences, FiniteSets, TLC

VARIABLES
    kind,          \* which struct the control is: "Button" or "ToggleButton"
    me,            \* the control's fields (button.rs:55-83)
    capture,       \* platform: this control's window holds the mouse capture
    leave_armed,   \* platform: a TrackMouseEvent(TME_LEAVE) request is outstanding
    invalid,       \* platform: the window's update region is not empty
    posted,        \* platform: UM_INVALIDATE messages waiting in the queue
    timers,        \* wake-up times of the sleeping flash-timer threads
    now,           \* the clock, in milliseconds
    press_pending, \* history: a WM_LBUTTONDOWN was handled since the last WM_LBUTTONUP
    press_inside,  \* history: the cursor was inside when that WM_LBUTTONDOWN was handled
    last,          \* observation of the last handled message: inputs, effects, result
    win,           \* the chrome window and the platform metrics it reads
    child_rects,   \* native rectangles of the chrome buttons (set by MoveWindow)
    hit,           \* the last WM_NCHITTEST: DefWindowProcW's answer, the row, the result
    title_bar_rect, \* SpecRects: the argument of get_titlebar_button_rects
    rects_dpi,     \* SpecRects: the DPI GetDpiForWindow reports
    button_rects,  \* SpecRects: the result of get_titlebar_button_rects
    pressed_at,    \* history: the time of the most recent WM_LBUTTONDOWN
    registry,      \* ComponentRegistry: the (h_inst, class name) pairs set registered
    native_calls,  \* platform: RegisterClassW calls made so far, per pair
    reg_last,      \* observation of the last register_class call
    tab_bar,       \* the TabBar's fields and the rectangles of its children
    tab_last,      \* observation of the last message the TabBar handled
    app,           \* the chrome window as the platform sees it, and its queue
    app_last,      \* observation of the last step of the chrome window's wiring
    ctor,          \* observation of the last constructor call; whether the process panicked
    ctl,           \* lifetime of one control: its Box, its native window
    disp,          \* the UI thread: the handlers it is executing, innermost last
    fail,          \* the last platform call that failed, and what became of the process
    loop,          \* main's message loop: running or ended, GetMessageW's last result
    wp             \* windows of a component class: GWLP_USERDATA, the hwnd fields

btnvars == <<kind, me, capture, leave_armed, invalid, posted, timers, now,
             press_pending, press_inside, last, pressed_at>>
chromevars == <<win, child_rects, hit>>
rectvars == <<title_bar_rect, rects_dpi, button_rects>>
regvars == <<registry, native_calls, reg_last>>
tabvars == <<tab_bar, tab_last>>
appvars == <<app, app_last>>
lifevars == <<ctor, ctl, disp>>
procvars == <<fail, loop, wp>>
othervars == <<regvars, tabvars, appvars, lifevars, procvars>>
vars == <<btnvars, chromevars, rectvars, othervars>>

----------------------------------------------------------------------------
(* Bounds *)

MaxTime == 75        \* the clock stops advancing here (ms)
ClockStep == 25      \* granularity of the clock (ms)
MaxPosted == 2       \* cap on queued UM_INVALIDATE messages
MaxNative == 2       \* cap on RegisterClassW calls counted per pair

(* Program constants *)

FLASH_MS == 50       \* button.rs:268  started.elapsed().as_millis() < 50
SLEEP_MS == 10       \* button.rs:271  Duration::new(0, 10000000)

----------------------------------------------------------------------------
(* Colors *)

\* wingdi RGB macro: COLORREF 0x00bbggrr
RGB(r, g, b) == r + g * 256 + b * 65536

Colors_default == [default |-> RGB(100, 100, 100),
                   hover   |-> RGB(80, 80, 80),
                   down    |-> RGB(60, 60, 60)]

Colors_toggled == [default |-> RGB(70, 70, 70),
                   hover   |-> RGB(60, 60, 60),
                   down    |-> RGB(50, 50, 50)]

State == {"None", "Hover", "Down"}

\* match self.state { None => default, Hover => hover, Down => down }
StateColor(colors, st) ==
    CASE st = "None"  -> colors.default
      [] st = "Hover" -> colors.hover
      [] st = "Down"  -> colors.down

\* Button::paint, the default fill
Button_bg_color(b) ==
    IF b.is_visual_down THEN b.colors.down ELSE StateColor(b.colors, b.state)

\* slip: the toggled color set is never used
ToggleButton_bg_color_untoggled(b) ==
    IF b.is_visual_down THEN b.colors.down ELSE StateColor(b.colors, b.state)

\* ToggleButton::paint, the default fill
ToggleButton_bg_color(b) ==
    LET colors == IF b.is_toggled THEN b.toggled_colors ELSE b.colors
    IN  IF b.is_visual_down THEN colors.down ELSE StateColor(colors, b.state)

----------------------------------------------------------------------------
(* The control *)

\* Button::new / ToggleButton::new (a Button never reads is_toggled
\* and toggled_colors: they stay at these values)
NewControl ==
    [state |-> "None",
     track_mouse_leave |-> FALSE,
     is_down |-> FALSE,
     is_visual_down |-> FALSE,
     deferred_start |-> <<>>,
     deferred_running |-> FALSE,
     click_cb |-> FALSE,
     paint_cb |-> FALSE,
     paint_last_cb |-> FALSE,
     is_toggled |-> FALSE,
     colors |-> Colors_default,
     toggled_colors |-> Colors_toggled]

\* Option values: <<>> is None, <<v>> is Some(v)
Some(v) == <<v>>

\* the call x is among the calls a handler made
Has(calls, x) == \E i \in 1..Len(calls) : calls[i] = x

\* how many times the handler made the call x
Count(calls, x) == Cardinality({i \in 1..Len(calls) : calls[i] = x})

Observe(msg, over, effects, ret, color, cbt) ==
    [msg |-> msg,
     over |-> over,
     old_state |-> me.state,
     old_is_down |-> me.is_down,
     old_is_toggled |-> me.is_toggled,
     click_cb |-> me.click_cb,
     pending |-> press_pending,
     press_inside |-> press_inside,
     effects |-> effects,
     ret |-> ret,
     bg_color |-> color,
     cb_toggled |-> cbt,
     paint_cb |-> msg = "WM_PAINT" /\ me.paint_cb,
     paint_last_cb |-> msg = "WM_PAINT" /\ me.paint_last_cb]

InitButton ==
    /\ kind \in {"Button", "ToggleButton"}
    /\ me = NewControl
    /\ capture = FALSE
    /\ leave_armed = FALSE
    /\ invalid = TRUE
    /\ posted = 0
    /\ timers = {}
    /\ now = 0
    /\ press_pending = FALSE
    /\ press_inside = FALSE
    /\ pressed_at = <<>>
    /\ last = [msg |-> "none", over |-> FALSE, old_state |-> "None",
               old_is_down |-> FALSE, old_is_toggled |-> FALSE,
               click_cb |-> FALSE,
               pending |-> FALSE, press_inside |-> FALSE, effects |-> <<>>,
               ret |-> "none", bg_color |-> <<>>, cb_toggled |-> <<>>,
               paint_cb |-> FALSE, paint_last_cb |-> FALSE]

----------------------------------------------------------------------------
(* Registration of the optional callbacks *)

\* BaseButton::on_click
on_click ==
    /\ me' = [me EXCEPT !.click_cb = TRUE]
    /\ UNCHANGED <<kind, capture, leave_armed, invalid, posted, timers, now,
                   press_pending, press_inside, last, pressed_at,
                   chromevars, rectvars, othervars>>

\* BaseButton::on_paint
on_paint ==
    /\ me' = [me EXCEPT !.paint_cb = TRUE]
    /\ UNCHANGED <<kind, capture, leave_armed, invalid, posted, timers, now,
                   press_pending, press_inside, last, pressed_at,
                   chromevars, rectvars, othervars>>

\* BaseButton::on_paint_last
on_paint_last ==
    /\ me' = [me EXCEPT !.paint_last_cb = TRUE]
    /\ UNCHANGED <<kind, capture, leave_armed, invalid, posted, timers, now,
                   press_pending, press_inside, last, pressed_at,
                   chromevars, rectvars, othervars>>

\* slip: toggle() switches the button on instead of flipping it
toggle_on(b) == [b EXCEPT !.is_toggled = TRUE]

\* ToggleButton::toggle: the fields it leaves
toggle(b) == [b EXCEPT !.is_toggled = ~b.is_toggled]

\* bool as the observation records it
Bool(v) == IF v THEN "true" ELSE "false"

\* the application calls toggle() on a ToggleButton
call_toggle ==
    /\ kind = "ToggleButton"
    /\ me' = toggle(me)
    /\ invalid' = TRUE
    /\ last' = Observe("toggle", FALSE, <<"InvalidateRect">>,
                       Bool(toggle(me).is_toggled), <<>>, <<>>)
    /\ UNCHANGED <<kind, capture, leave_armed, posted, timers, now,
                   press_pending, press_inside, pressed_at,
                   chromevars, rectvars, othervars>>

----------------------------------------------------------------------------
(* handle_message, one action per message.  The cursor position a handler  *)
(* sees is the live one (is_mouse_over calls GetCursorPos), so it is an     *)
(* input of the handler: over.                                              *)

\* slip: a press during the flash does not restart it
deferred_invalidate_no_restart(b, t) ==
    IF b.deferred_running
    THEN b
    ELSE [b EXCEPT !.deferred_start = Some(t), !.deferred_running = TRUE]

\* deferred_invalidate: the fields it leaves (its PostMessageW is the post
\* of WM_LBUTTONDOWN below)
deferred_invalidate(b, t) ==
    [b EXCEPT !.deferred_start = Some(t), !.deferred_running = TRUE]

\* slip: the press does not return 1 and falls through to DefWindowProcW
WM_LBUTTONDOWN_fallthrough ==
    \E over \in BOOLEAN :
        LET post == ~me.deferred_running IN
        /\ post => posted < MaxPosted
        /\ me' = deferred_invalidate([me EXCEPT !.state = "Down",
                                                !.is_down = TRUE,
                                                !.is_visual_down = TRUE],
                                     now)
        /\ pressed_at' = Some(now)
        /\ invalid' = TRUE
        /\ posted' = IF post THEN posted + 1 ELSE posted
        /\ capture' = TRUE
        /\ press_pending' = TRUE
        /\ press_inside' = over
        /\ last' = Observe("WM_LBUTTONDOWN", over,
                           <<"InvalidateRect">>
                           \o (IF post THEN <<"PostMessageW">> ELSE <<>>)
                           \o <<"SetCapture", "DefWindowProcW">>,
                           "DefWindowProcW", <<>>, FALSE)
        /\ UNCHANGED <<kind, leave_armed, timers, now,
                       chromevars, rectvars, othervars>>

\* slip: every press posts a tick, whether or not one is running
WM_LBUTTONDOWN_always_posts ==
    \E over \in BOOLEAN :
        LET post == TRUE IN
        /\ post => posted < MaxPosted
        /\ me' = deferred_invalidate([me EXCEPT !.state = "Down",
                                                !.is_down = TRUE,
                                                !.is_visual_down = TRUE],
                                     now)
        /\ pressed_at' = Some(now)
        /\ invalid' = TRUE
        /\ posted' = IF post THEN posted + 1 ELSE posted
        /\ capture' = TRUE
        /\ press_pending' = TRUE
        /\ press_inside' = over
        /\ last' = Observe("WM_LBUTTONDOWN", over,
                           <<"InvalidateRect">>
                           \o (IF post THEN <<"PostMessageW">> ELSE <<>>)
                           \o <<"SetCapture">>,
                           "1", <<>>, FALSE)
        /\ UNCHANGED <<kind, leave_armed, timers, now,
                       chromevars, rectvars, othervars>>

\* WM_LBUTTONDOWN
WM_LBUTTONDOWN ==
    \E over \in BOOLEAN :
        LET post == ~me.deferred_running IN
        /\ post => posted < MaxPosted
        /\ me' = deferred_invalidate([me EXCEPT !.state = "Down",
                                                !.is_down = TRUE,
                                                !.is_visual_down = TRUE],
                                     now)
        /\ pressed_at' = Some(now)
        /\ invalid' = TRUE
        /\ posted' = IF post THEN posted + 1 ELSE posted
        /\ capture' = TRUE
        /\ press_pending' = TRUE
        /\ press_inside' = over
        /\ last' = Observe("WM_LBUTTONDOWN", over,
                           <<"InvalidateRect">>
                           \o (IF post THEN <<"PostMessageW">> ELSE <<>>)
                           \o <<"SetCapture">>,
                           "1", <<>>, FALSE)
        /\ UNCHANGED <<kind, leave_armed, timers, now,
                       chromevars, rectvars, othervars>>

\* slip: the release always resets the state
LButtonUpState_none(over) == "None"

\* the state WM_LBUTTONUP leaves
LButtonUpState(over) == IF over THEN "Hover" ELSE "None"

\* slip: click_cb runs before toggle()
LButtonUpClick_cb_first(k, b, over) ==
    IF over /\ b.is_down
    THEN (IF b.click_cb THEN <<"click_cb">> ELSE <<>>)
         \o (IF k = "ToggleButton" THEN <<"toggle", "InvalidateRect">> ELSE <<>>)
    ELSE <<>>

\* slip: the release does not test is_mouse_over()
LButtonUpClick_anywhere(k, b, over) ==
    IF b.is_down
    THEN (IF k = "ToggleButton" THEN <<"toggle", "InvalidateRect">> ELSE <<>>)
         \o (IF b.click_cb THEN <<"click_cb">> ELSE <<>>)
    ELSE <<>>

\* slip: toggle() does not call invalidate_rect()
LButtonUpClick_no_redraw(k, b, over) ==
    IF over /\ b.is_down
    THEN (IF k = "ToggleButton" THEN <<"toggle">> ELSE <<>>)
         \o (IF b.click_cb THEN <<"click_cb">> ELSE <<>>)
    ELSE <<>>

\* slip: the release does not test is_down
LButtonUpClick_inside(k, b, over) ==
    IF over
    THEN (IF k = "ToggleButton" THEN <<"toggle", "InvalidateRect">> ELSE <<>>)
         \o (IF b.click_cb THEN <<"click_cb">> ELSE <<>>)
    ELSE <<>>

\* the click of WM_LBUTTONUP: toggle() (ToggleButton only), then click_cb
LButtonUpClick(k, b, over) ==
    IF over /\ b.is_down
    THEN (IF k = "ToggleButton" THEN <<"toggle", "InvalidateRect">> ELSE <<>>)
         \o (IF b.click_cb THEN <<"click_cb">> ELSE <<>>)
    ELSE <<>>

\* is_toggled after the calls of a handler: every toggle() flips it
Toggled(was, calls) ==
    IF Count(calls, "toggle") % 2 = 1
    THEN toggle([is_toggled |-> was]).is_toggled
    ELSE was

\* is_toggled as the first click_cb of the calls sees it
SeenByClick(was, calls) ==
    LET at == CHOOSE i \in 1..Len(calls) :
                  /\ calls[i] = "click_cb"
                  /\ \A j \in 1..(i - 1) : calls[j] # "click_cb"
    IN  IF Has(calls, "click_cb")
        THEN Some(Toggled(was, SubSeq(calls, 1, at - 1)))
        ELSE <<>>

\* WM_LBUTTONUP
WM_LBUTTONUP ==
    \E over \in BOOLEAN :
        LET new_state == LButtonUpState(over)
            click == LButtonUpClick(kind, me, over)
            redraw == me.state # new_state
        IN
        /\ me' = [me EXCEPT !.state = new_state,
                            !.is_toggled = Toggled(me.is_toggled, click),
                            !.is_down = FALSE]
        /\ invalid' = (invalid \/ redraw \/ Has(click, "InvalidateRect"))
        /\ capture' = FALSE
        /\ press_pending' = FALSE
        /\ press_inside' = FALSE
        /\ last' = Observe("WM_LBUTTONUP", over,
                           click \o (IF redraw THEN <<"InvalidateRect">> ELSE <<>>)
                                 \o <<"ReleaseCapture", "DefWindowProcW">>,
                           "DefWindowProcW", <<>>,
                           SeenByClick(me.is_toggled, click))
        /\ UNCHANGED <<kind, leave_armed, posted, timers, now,
                       pressed_at,
                   chromevars, rectvars, othervars>>

\* slip: a held primary button shows Down although no press began here
MouseMoveState_any_press(b, over, mk_lbutton) ==
    IF over
    THEN (IF mk_lbutton THEN "Down" ELSE "Hover")
    ELSE "Hover"

\* the state WM_MOUSEMOVE leaves
MouseMoveState(b, over, mk_lbutton) ==
    IF over /\ b.is_down
    THEN (IF mk_lbutton THEN "Down" ELSE "Hover")
    ELSE "Hover"

\* slip: every WM_MOUSEMOVE calls TrackMouseEvent
MouseMoveTrack_always(b) == TRUE

\* WM_MOUSEMOVE calls TrackMouseEvent: if !self.track_mouse_leave
MouseMoveTrack(b) == ~b.track_mouse_leave

\* WM_MOUSEMOVE; mk_lbutton is wparam & MK_LBUTTON > 0
WM_MOUSEMOVE ==
    \E over \in BOOLEAN, mk_lbutton \in BOOLEAN :
        LET track == MouseMoveTrack(me)
            new_state == MouseMoveState(me, over, mk_lbutton)
            redraw == me.state # new_state
        IN
        /\ me' = [me EXCEPT !.track_mouse_leave = TRUE,
                            !.state = new_state]
        /\ leave_armed' = (leave_armed \/ track)
        /\ invalid' = (invalid \/ redraw)
        /\ last' = Observe("WM_MOUSEMOVE", over,
                           (IF track THEN <<"TrackMouseEvent">> ELSE <<>>)
                           \o (IF redraw THEN <<"InvalidateRect">> ELSE <<>>)
                           \o <<"DefWindowProcW">>,
                           "DefWindowProcW", <<>>, <<>>)
        /\ UNCHANGED <<kind, capture, posted, timers, now,
                       press_pending, press_inside, pressed_at,
                   chromevars, rectvars, othervars>>

\* slip: a press in progress keeps its state when the cursor leaves
MouseLeaveState_keep_press(b) == IF b.is_down THEN b.state ELSE "None"

\* the state WM_MOUSELEAVE leaves
MouseLeaveState(b) == "None"

\* slip: the leave ends the press
WM_MOUSELEAVE_ends_press ==
    /\ leave_armed
    /\ me' = [me EXCEPT !.track_mouse_leave = FALSE,
                        !.state = MouseLeaveState(me),
                        !.is_down = FALSE]
    /\ leave_armed' = FALSE
    /\ invalid' = TRUE
    /\ last' = Observe("WM_MOUSELEAVE", FALSE,
                       <<"InvalidateRect", "DefWindowProcW">>,
                       "DefWindowProcW", <<>>, <<>>)
    /\ UNCHANGED <<kind, capture, posted, timers, now,
                   press_pending, press_inside, pressed_at,
                   chromevars, rectvars, othervars>>

\* WM_MOUSELEAVE: posted by the platform for an outstanding TME_LEAVE request
WM_MOUSELEAVE ==
    /\ leave_armed
    /\ me' = [me EXCEPT !.track_mouse_leave = FALSE,
                        !.state = MouseLeaveState(me)]
    /\ leave_armed' = FALSE
    /\ invalid' = TRUE
    /\ last' = Observe("WM_MOUSELEAVE", FALSE,
                       <<"InvalidateRect", "DefWindowProcW">>,
                       "DefWindowProcW", <<>>, <<>>)
    /\ UNCHANGED <<kind, capture, posted, timers, now,
                   press_pending, press_inside, pressed_at,
                   chromevars, rectvars, othervars>>

\* the color of the default fill
bg_color(k, b) ==
    IF k = "ToggleButton" THEN ToggleButton_bg_color(b) ELSE Button_bg_color(b)

\* slip: the overlay is drawn before the base
paint_overlay_first(b) ==
    <<"BeginPaint">>
    \o (IF b.paint_last_cb THEN <<"paint_last_cb">> ELSE <<>>)
    \o (IF b.paint_cb THEN <<"paint_cb">> ELSE <<"FillRect">>)
    \o <<"EndPaint">>

\* paint(): the calls from BeginPaint to EndPaint
paint(b) ==
    <<"BeginPaint">>
    \o (IF b.paint_cb THEN <<"paint_cb">> ELSE <<"FillRect">>)
    \o (IF b.paint_last_cb THEN <<"paint_last_cb">> ELSE <<>>)
    \o <<"EndPaint">>

\* WM_PAINT: sent while the update region is not empty; BeginPaint validates it
WM_PAINT ==
    /\ invalid
    /\ invalid' = FALSE
    /\ last' = Observe("WM_PAINT", FALSE, paint(me) \o <<"DefWindowProcW">>,
                       "DefWindowProcW",
                       IF me.paint_cb THEN <<>> ELSE Some(bg_color(kind, me)),
                       <<>>)
    /\ UNCHANGED <<kind, me, capture, leave_armed, posted, timers, now,
                   press_pending, press_inside, pressed_at,
                   chromevars, rectvars, othervars>>

\* slip: the elapsed time is read in seconds
FlashRunning_secs(started, t) == (t - started) \div 1000 < FLASH_MS

\* started.elapsed().as_millis() < 50
FlashRunning(started, t) == t - started < FLASH_MS

\* UM_INVALIDATE: the flash tick, taken from the queue
UM_INVALIDATE ==
    LET again == me.deferred_start # <<>>
                 /\ FlashRunning(me.deferred_start[1], now)
        over  == me.deferred_start # <<>> /\ ~again
    IN
    /\ posted > 0
    /\ posted' = posted - 1
    /\ invalid' = TRUE
    /\ timers' = IF again THEN timers \cup {now + SLEEP_MS} ELSE timers
    /\ me' = IF over THEN [me EXCEPT !.deferred_running = FALSE,
                                     !.is_visual_down = FALSE]
             ELSE me
    /\ last' = Observe("UM_INVALIDATE", FALSE,
                       <<"InvalidateRect">>
                       \o (IF again THEN <<"thread::spawn">> ELSE <<>>)
                       \o <<"DefWindowProcW">>,
                       "DefWindowProcW", <<>>, <<>>)
    /\ UNCHANGED <<kind, capture, leave_armed, now,
                   press_pending, press_inside, pressed_at,
                   chromevars, rectvars, othervars>>

----------------------------------------------------------------------------
(* The timer thread and the clock *)

\* slip: the thread ends the flash itself
TimerThread_clears ==
    \E t \in timers :
        /\ now >= t
        /\ posted < MaxPosted
        /\ timers' = timers \ {t}
        /\ posted' = posted + 1
        /\ me' = [me EXCEPT !.is_visual_down = FALSE]
        /\ UNCHANGED <<kind, capture, leave_armed, invalid, now,
                       press_pending, press_inside, last, pressed_at,
                   chromevars, rectvars, othervars>>

\* the spawned thread: sleep 10 ms, then PostMessageW(hwnd, UM_INVALIDATE)
TimerThread ==
    \E t \in timers :
        /\ now >= t
        /\ posted < MaxPosted
        /\ timers' = timers \ {t}
        /\ posted' = posted + 1
        /\ UNCHANGED <<kind, me, capture, leave_armed, invalid, now,
                       press_pending, press_inside, last, pressed_at,
                   chromevars, rectvars, othervars>>

\* time passes
Advance ==
    /\ now + ClockStep <= MaxTime
    /\ now' = now + ClockStep
    /\ UNCHANGED <<kind, me, capture, leave_armed, invalid, posted, timers,
                   press_pending, press_inside, last, pressed_at,
                   chromevars, rectvars, othervars>>

----------------------------------------------------------------------------
(* Rectangles and DPI scaling (wutils.rs) *)

TOP_AND_BOTTOM_BORDERS == 2
FAKE_SHADOW_HEIGHT == 1
BUTTON_WIDTH == 47
TAB_RECT_MARGIN == 100

RECT(left, top, right, bottom) ==
    [left |-> left, top |-> top, right |-> right, bottom |-> bottom]

\* (value as f32 * dpi as f32 / 96f32) as i32: the cast truncates toward
\* zero.  For the magnitudes used here the product is exact in f32 and the
\* rounded quotient lies on the same side of every integer as the exact one.
dpi_scale(value, dpi) ==
    IF value * dpi >= 0
    THEN (value * dpi) \div 96
    ELSE 0 - ((0 - value * dpi) \div 96)

\* get_client_rect of the chrome window: left and top are always 0
get_client_rect(w) == RECT(0, 0, w.width, w.height)

\* get_titlebar_rect: the client rect cut to the scaled caption height
get_titlebar_rect(w) ==
    LET height == dpi_scale(w.caption_cy, w.dpi) + TOP_AND_BOTTOM_BORDERS
        rect == get_client_rect(w)
    IN  [rect EXCEPT !.bottom = rect.top + height]

\* slip: minimize keeps maximize's right edge
get_titlebar_button_rects_overlap(tbr, dpi) ==
    LET button_width == dpi_scale(BUTTON_WIDTH, dpi)
        top == [tbr EXCEPT !.top = tbr.top + FAKE_SHADOW_HEIGHT]
        close == [top EXCEPT !.left = top.right - button_width]
        maximize == [close EXCEPT !.left = close.left - button_width,
                                  !.right = close.right - button_width]
        minimize == [maximize EXCEPT !.left = maximize.left - button_width]
    IN  [close |-> close, maximize |-> maximize, minimize |-> minimize]

\* get_titlebar_button_rects
get_titlebar_button_rects(tbr, dpi) ==
    LET button_width == dpi_scale(BUTTON_WIDTH, dpi)
        top == [tbr EXCEPT !.top = tbr.top + FAKE_SHADOW_HEIGHT]
        close == [top EXCEPT !.left = top.right - button_width]
        maximize == [close EXCEPT !.left = close.left - button_width,
                                  !.right = close.right - button_width]
        minimize == [maximize EXCEPT !.left = maximize.left - button_width,
                                     !.right = maximize.right - button_width]
    IN  [close |-> close, maximize |-> maximize, minimize |-> minimize]

----------------------------------------------------------------------------
(* The chrome window (main.rs) *)

MaxY == 48           \* cursor rows 0 - 2 .. MaxY are hit-tested

DpiValues == {96, 120, 144}
CaptionHeights == {23, 29}     \* GetThemePartSize(WP_CAPTION).cy
Widths == {500, 800}
Heights == {500}

\* the results of DefWindowProcW(WM_NCHITTEST) that are resize borders
ResizeBorders ==
    {"HTLEFT", "HTRIGHT", "HTTOP", "HTTOPLEFT", "HTTOPRIGHT",
     "HTBOTTOM", "HTBOTTOMLEFT", "HTBOTTOMRIGHT"}

\* the results of DefWindowProcW(WM_NCHITTEST) the model draws from
DefaultHits == ResizeBorders \cup {"HTNOWHERE", "HTCLIENT", "HTCAPTION"}

\* the results WM_NCHITTEST returns as they are
PassedThrough ==
    {"HTNOWHERE", "HTRIGHT", "HTLEFT", "HTTOPLEFT", "HTTOP", "HTTOPRIGHT",
     "HTBOTTOMRIGHT", "HTBOTTOM", "HTBOTTOMLEFT"}

\* GetSystemMetricsForDpi for SM_CYFRAME and SM_CXPADDEDBORDER: 4 at 96 DPI,
\* scaled by the platform
get_system_metrics_for_dpi(dpi) == (4 * dpi) \div 96

\* slip: the caption test includes the title bar's bottom row
HitTest_inclusive(w, result, y) ==
    LET frame_y == get_system_metrics_for_dpi(w.dpi)
        padding == get_system_metrics_for_dpi(w.dpi)
    IN  IF result \in PassedThrough THEN result
        ELSE IF y > 0 /\ y < frame_y + padding THEN "HTTOP"
        ELSE IF y <= get_titlebar_rect(w).bottom THEN "HTCAPTION"
        ELSE "HTCLIENT"

\* slip: HTTOPRIGHT is missing from the results passed through
HitTest_no_topright(w, result, y) ==
    LET frame_y == get_system_metrics_for_dpi(w.dpi)
        padding == get_system_metrics_for_dpi(w.dpi)
    IN  IF result \in PassedThrough \ {"HTTOPRIGHT"} THEN result
        ELSE IF y > 0 /\ y < frame_y + padding THEN "HTTOP"
        ELSE IF y < get_titlebar_rect(w).bottom THEN "HTCAPTION"
        ELSE "HTCLIENT"

\* WM_NCHITTEST: result is what DefWindowProcW answered, y the cursor's
\* client-relative row after ScreenToClient
HitTest(w, result, y) ==
    LET frame_y == get_system_metrics_for_dpi(w.dpi)
        padding == get_system_metrics_for_dpi(w.dpi)
    IN  IF result \in PassedThrough THEN result
        ELSE IF y > 0 /\ y < frame_y + padding THEN "HTTOP"
        ELSE IF y < get_titlebar_rect(w).bottom THEN "HTCAPTION"
        ELSE "HTCLIENT"

\* slip: the buttons are laid out for 96 DPI whatever the window's DPI
reposition_components_dpi96(w, children) ==
    LET title == get_titlebar_rect(w)
        rects == get_titlebar_button_rects(title, 96)
    IN  IF w.created
        THEN [minimize |-> rects.minimize,
              maximize |-> rects.maximize,
              close |-> rects.close]
        ELSE children

\* slip: each child is moved relative to where it is
reposition_components_relative(w, children) ==
    LET title == get_titlebar_rect(w)
        rects == get_titlebar_button_rects(title, w.dpi)
        moved(r, c) == [r EXCEPT !.left = c.left + r.left,
                                 !.right = c.left + r.right]
    IN  IF w.created
        THEN [minimize |-> moved(rects.minimize, children.minimize),
              maximize |-> moved(rects.maximize, children.maximize),
              close |-> moved(rects.close, children.close)]
        ELSE children

\* reposition_components: the rectangles MoveWindow gives the three buttons;
\* before on_created the buttons are None and nothing is moved
reposition_components(w, children) ==
    LET title == get_titlebar_rect(w)
        rects == get_titlebar_button_rects(title, w.dpi)
    IN  IF w.created
        THEN [minimize |-> rects.minimize,
              maximize |-> rects.maximize,
              close |-> rects.close]
        ELSE children

\* reposition_components: the local tab_rect it computes and then drops
\* (the MoveWindow of the tab bar is commented out: the window has none)
tab_rect(w) ==
    LET title == get_titlebar_rect(w)
        rects == get_titlebar_button_rects(title, w.dpi)
    IN  [title EXCEPT !.top = FAKE_SHADOW_HEIGHT + 2,
                      !.right = rects.minimize.left - TAB_RECT_MARGIN]

\* Button::new(hwnd, h_inst, 0, 0, 0, 0, ...) for the three buttons
NewChildren ==
    [minimize |-> RECT(0, 0, 0, 0),
     maximize |-> RECT(0, 0, 0, 0),
     close |-> RECT(0, 0, 0, 0)]

InitChrome ==
    /\ win \in [created : {FALSE},
                dpi : DpiValues,
                caption_cy : CaptionHeights,
                width : Widths,
                height : Heights,
                runs : {0},
                before : {<<>>},
                tab_rect : {<<>>}]
    /\ child_rects = <<>>
    /\ hit = <<>>

\* WM_CREATE: on_created makes the buttons, then reposition_components
WM_CREATE ==
    /\ ~win.created
    /\ LET w == [win EXCEPT !.created = TRUE] IN
       /\ win' = [w EXCEPT !.runs = 1, !.before = NewChildren,
                           !.tab_rect = Some(tab_rect(w))]
       /\ child_rects' = reposition_components(w, NewChildren)
    /\ UNCHANGED <<hit, btnvars, rectvars, othervars>>

\* WM_SIZE after the platform changed the client rectangle
WM_SIZE ==
    \E width \in Widths, height \in Heights :
        LET same == width = win.width /\ height = win.height
            w == [win EXCEPT !.width = width, !.height = height]
        IN
        /\ win' = [w EXCEPT !.runs = IF same /\ win.runs > 0 THEN 2 ELSE 1,
                            !.before = child_rects,
                            !.tab_rect = Some(tab_rect(w))]
        /\ child_rects' = reposition_components(w, child_rects)
        /\ UNCHANGED <<hit, btnvars, rectvars, othervars>>

\* the window moves to a monitor of another DPI, or the theme changes; no
\* handler of the window runs.  The last hit test no longer describes the
\* window and is forgotten.
MetricsChange ==
    \E dpi \in DpiValues, cy \in CaptionHeights :
        /\ dpi # win.dpi \/ cy # win.caption_cy
        /\ win' = [win EXCEPT !.dpi = dpi, !.caption_cy = cy, !.runs = 0]
        /\ hit' = <<>>
        /\ UNCHANGED <<child_rects, btnvars, rectvars, othervars>>

\* WM_NCHITTEST, sent to the created window
WM_NCHITTEST ==
    \E result \in DefaultHits, y \in (0 - 2)..MaxY :
        /\ win.created
        /\ hit' = [default |-> result,
                   y |-> y,
                   result |-> HitTest(win, result, y)]
        /\ UNCHANGED <<win, child_rects, btnvars, rectvars, othervars>>

NextChrome ==
    \/ WM_CREATE
    \/ WM_SIZE
    \/ MetricsChange

NextHitTest ==
    \/ WM_CREATE
    \/ WM_NCHITTEST
    \/ MetricsChange

----------------------------------------------------------------------------
(* get_titlebar_button_rects on its own *)

MaxCoord == 2        \* left and top of the title bar range over 0 - 1 .. MaxCoord

TitleBarRects ==
    {RECT(l, t, l + w, t + h) :
        l \in (0 - 1)..MaxCoord, t \in (0 - 1)..MaxCoord,
        w \in {100, 500}, h \in {25, 36}}

InitRects ==
    /\ title_bar_rect \in TitleBarRects
    /\ rects_dpi \in DpiValues
    /\ button_rects = <<>>

\* reposition_components' call of get_titlebar_button_rects
ApplyButtonRects ==
    \E r \in TitleBarRects, dpi \in DpiValues :
        /\ title_bar_rect' = r
        /\ rects_dpi' = dpi
        /\ button_rects' = get_titlebar_button_rects(r, dpi)
        /\ UNCHANGED <<btnvars, chromevars, othervars>>

----------------------------------------------------------------------------
(* Window-class registration (wutils.rs, button.rs, tab_bar.rs, main.rs) *)

Instances == {1, 2}            \* h_inst values

\* classes registered by Component::register_class of the component
ComponentClasses == {"CUSTOM_BTN", "CUSTOM_TBTN", "TAB_BAR"}

\* classes registered through wutils::register_class
WutilsClasses == {"testwindowtabs.Window"}

ClassNames == ComponentClasses \cup WutilsClasses

RegistryPairs == Instances \X ClassNames

\* slip: the registry is keyed by the class name alone
set_registered_by_class(reg, h_inst, class_name) ==
    LET r1 == [k \in DOMAIN reg \cup {h_inst} |->
                  IF k \in DOMAIN reg THEN reg[k] ELSE {}]
    IN  IF \E k \in DOMAIN r1 : class_name \in r1[k]
        THEN [registry |-> r1, result |-> "ComponentAlreadyRegistered"]
        ELSE [registry |-> [r1 EXCEPT ![h_inst] = @ \cup {class_name}],
              result |-> "Ok"]

\* ComponentRegistry::set_registered: registry maps h_inst to the class names
\* registered for it.  The lock is never poisoned: nothing panics while it
\* is held.
set_registered(reg, h_inst, class_name) ==
    LET r1 == [k \in DOMAIN reg \cup {h_inst} |->
                  IF k \in DOMAIN reg THEN reg[k] ELSE {}]
    IN  IF class_name \in r1[h_inst]
        THEN [registry |-> r1, result |-> "ComponentAlreadyRegistered"]
        ELSE [registry |-> [r1 EXCEPT ![h_inst] = @ \cup {class_name}],
              result |-> "Ok"]

\* Component::register_class of Button, ToggleButton and TabBar: registered
\* is set_registered's result, native_ok whether RegisterClassW succeeds
Component_register_class(registered, native_ok) ==
    IF registered = "Ok"
    THEN [native |-> TRUE, ret |-> IF native_ok THEN "Ok" ELSE "Err"]
    ELSE [native |-> FALSE, ret |-> "Ok"]

\* wutils::register_class, used by Window::register_class
register_class(registered, native_ok) ==
    CASE registered = "Ok" ->
            [native |-> TRUE, ret |-> IF native_ok THEN "Ok" ELSE "Err"]
      [] registered = "ComponentAlreadyRegistered" ->
            [native |-> FALSE, ret |-> "Ok"]
      [] OTHER -> [native |-> FALSE, ret |-> "Err"]

InitRegistry ==
    /\ registry = <<>>
    /\ native_calls = [p \in RegistryPairs |-> 0]
    /\ reg_last = [called |-> {}]

\* one call of register_class, made by the constructor of a control
RegisterClass ==
    \E h_inst \in Instances, class_name \in ClassNames, native_ok \in BOOLEAN :
        LET sr == set_registered(registry, h_inst, class_name)
            rc == IF class_name \in WutilsClasses
                  THEN register_class(sr.result, native_ok)
                  ELSE Component_register_class(sr.result, native_ok)
            p == <<h_inst, class_name>>
        IN
        /\ native_calls[p] < MaxNative
        /\ registry' = sr.registry
        /\ native_calls' = IF rc.native
                           THEN [native_calls EXCEPT ![p] = @ + 1]
                           ELSE native_calls
        /\ reg_last' = [called |-> reg_last.called \cup {p},
                        pair |-> p,
                        first |-> p \notin reg_last.called,
                        native |-> rc.native,
                        native_ok |-> native_ok,
                        ret |-> rc.ret]
        /\ UNCHANGED <<btnvars, chromevars, rectvars, tabvars, appvars, lifevars, procvars>>

NextRegistry == RegisterClass

----------------------------------------------------------------------------
(* The tab strip (tab_bar.rs) *)

MaxTabs == 4         \* cap on add_item calls

TAB_TOP_OFFSET == 40     \* tab_bar.rs:135  btn_rect.bottom - 40
TAB_LEFT == 4            \* tab_bar.rs:136  btn_rect.left = 4
TAB_WIDTH == 10          \* tab_bar.rs:137  btn_rect.left + 10
TAB_STEP == 12           \* tab_bar.rs:141  btn_rect.left += 12
ADD_EXTRA == 30          \* tab_bar.rs:145  btn_rect.right += 30

TabClientWidths == {0, 100, 200, 500}
TabClientHeights == {0, 30, 36}

\* TabBar::new: the fields before CreateWindowExW sends WM_CREATE
NewTabBar ==
    [created |-> FALSE,
     add_button |-> <<>>,
     tab_count |-> 0,
     tab_order |-> <<>>,
     tab_buttons |-> <<>>,
     client |-> RECT(0, 0, 0, 0)]

\* the loop of reposition_components from position i of tab_order on:
\* buttons maps an id to the native rectangle of its ToggleButton
RECURSIVE TabLoop(_, _, _, _, _)
TabLoop(order, i, btn_rect, buttons, step) ==
    IF i > Len(order)
    THEN [buttons |-> buttons, btn_rect |-> btn_rect]
    ELSE LET idx == order[i]
             moved == IF idx \in DOMAIN buttons
                      THEN [buttons EXCEPT ![idx] = btn_rect]
                      ELSE buttons
             left == btn_rect.left + step
         IN  TabLoop(order, i + 1,
                     [btn_rect EXCEPT !.left = left, !.right = left + TAB_WIDTH],
                     moved, step)

\* slip: the tabs advance by their width, without the gap
TabBar_reposition_components_no_gap(tb) ==
    LET my_rect == tb.client
        first == [my_rect EXCEPT !.top = my_rect.bottom - TAB_TOP_OFFSET,
                                 !.left = TAB_LEFT,
                                 !.right = TAB_LEFT + TAB_WIDTH]
        done == TabLoop(tb.tab_order, 1, first, tb.tab_buttons, TAB_WIDTH)
        add_rect == [done.btn_rect EXCEPT !.right = @ + ADD_EXTRA]
    IN  [tb EXCEPT !.tab_buttons = done.buttons,
                   !.add_button = IF tb.add_button # <<>>
                                  THEN Some(add_rect) ELSE <<>>]

\* TabBar::reposition_components: MoveWindow for every tab, then for the
\* add button (if it exists)
TabBar_reposition_components(tb) ==
    LET my_rect == tb.client
        first == [my_rect EXCEPT !.top = my_rect.bottom - TAB_TOP_OFFSET,
                                 !.left = TAB_LEFT,
                                 !.right = TAB_LEFT + TAB_WIDTH]
        done == TabLoop(tb.tab_order, 1, first, tb.tab_buttons, TAB_STEP)
        add_rect == [done.btn_rect EXCEPT !.right = @ + ADD_EXTRA]
    IN  [tb EXCEPT !.tab_buttons = done.buttons,
                   !.add_button = IF tb.add_button # <<>>
                                  THEN Some(add_rect) ELSE <<>>]

\* HashMap::insert
Insert(map, key, value) ==
    [k \in DOMAIN map \cup {key} |-> IF k = key THEN value ELSE map[k]]

\* slip: the id counter is not advanced
add_item_same_id(tb) ==
    LET idx == tb.tab_count
        pushed == [tb EXCEPT !.tab_order = Append(@, idx),
                             !.tab_buttons = Insert(@, idx, RECT(0, 0, 0, 0))]
    IN  TabBar_reposition_components(pushed)

\* TabBar::add_item: ToggleButton::new(hwnd, h_inst, 0, 0, 0, 0, ..)
add_item(tb) ==
    LET idx == tb.tab_count
        pushed == [tb EXCEPT !.tab_count = @ + 1,
                             !.tab_order = Append(@, idx),
                             !.tab_buttons = Insert(@, idx, RECT(0, 0, 0, 0))]
    IN  TabBar_reposition_components(pushed)

\* what the observation keeps of the TabBar before a message
TabObserve(msg) ==
    [msg |-> msg,
     tab_order |-> tab_bar.tab_order,
     tab_buttons |-> tab_bar.tab_buttons,
     add_button |-> tab_bar.add_button]

InitTabBar ==
    /\ tab_bar = NewTabBar
    /\ tab_last = [msg |-> "none"]

\* WM_CREATE, sent by CreateWindowExW inside TabBar::new
TabBar_WM_CREATE ==
    /\ ~tab_bar.created
    /\ tab_bar' = TabBar_reposition_components(
                      [tab_bar EXCEPT !.created = TRUE,
                                      !.add_button = Some(RECT(0, 0, 0, 0))])
    /\ tab_last' = TabObserve("WM_CREATE")
    /\ UNCHANGED <<btnvars, chromevars, rectvars, regvars, appvars, lifevars, procvars>>

\* WM_SIZE: the parent gave the strip a new client rectangle
TabBar_WM_SIZE ==
    \E width \in TabClientWidths, height \in TabClientHeights :
        /\ tab_bar.created
        /\ tab_bar' = TabBar_reposition_components(
                          [tab_bar EXCEPT !.client = RECT(0, 0, width, height)])
        /\ tab_last' = TabObserve("WM_SIZE")
        /\ UNCHANGED <<btnvars, chromevars, rectvars, regvars, appvars, lifevars, procvars>>

\* UM_ADDTAB, posted by the add button's click, or add_item called directly
UM_ADDTAB ==
    /\ tab_bar.created
    /\ tab_bar.tab_count < MaxTabs
    /\ Len(tab_bar.tab_order) < MaxTabs
    /\ tab_bar' = add_item(tab_bar)
    /\ tab_last' = TabObserve("UM_ADDTAB")
    /\ UNCHANGED <<btnvars, chromevars, rectvars, regvars, appvars, lifevars, procvars>>

NextTabBar ==
    \/ TabBar_WM_CREATE
    \/ TabBar_WM_SIZE
    \/ UM_ADDTAB

----------------------------------------------------------------------------
(* The chrome buttons' click wiring and the window's end (main.rs) *)

MaxQueue == 2        \* cap on the messages waiting in the window's queue

ChromeButtons == {"minimize", "maximize", "close"}

Placements == {"normal", "maximized", "minimized"}

\* platform: the placement ShowWindow(hwnd, mode) leaves
ShowWindow(placement, mode) ==
    CASE mode = "SW_MINIMIZE" -> "minimized"
      [] mode = "SW_MAXIMIZE" -> "maximized"
      [] mode = "SW_NORMAL"   -> "normal"

\* window_is_maximized: GetWindowPlacement's showCmd == SW_SHOWMAXIMIZED
window_is_maximized(a) == a.placement = "maximized"

\* the click callbacks return the calls they made and the window they leave

\* minimize_button.on_click
minimize_click(a) ==
    [calls |-> <<<<"ShowWindow", "SW_MINIMIZE">>>>,
     app |-> [a EXCEPT !.placement = ShowWindow(@, "SW_MINIMIZE")]]

\* slip: the maximize button always maximizes
maximize_click_always(a) ==
    LET mode == "SW_MAXIMIZE"
    IN  [calls |-> <<<<"ShowWindow", mode>>>>,
         app |-> [a EXCEPT !.placement = ShowWindow(@, mode)]]

\* maximize_button.on_click
maximize_click(a) ==
    LET mode == IF window_is_maximized(a) THEN "SW_NORMAL" ELSE "SW_MAXIMIZE"
    IN  [calls |-> <<<<"ShowWindow", mode>>>>,
         app |-> [a EXCEPT !.placement = ShowWindow(@, mode)]]

\* platform: DestroyWindow sends WM_DESTROY, whose handler posts the quit
DestroyWindow(a) == [a EXCEPT !.alive = FALSE, !.quit = TRUE]

\* slip: the close button destroys the window itself
close_click_destroy(a) ==
    [calls |-> <<<<"DestroyWindow">>>>, app |-> DestroyWindow(a)]

\* close_button.on_click
close_click(a) ==
    [calls |-> <<<<"PostMessageW", "WM_CLOSE">>>>,
     app |-> [a EXCEPT !.queue = Append(@, "WM_CLOSE")]]

\* the click_cb wired to a chrome button by on_created
ChromeClick(button, a) ==
    CASE button = "minimize" -> minimize_click(a)
      [] button = "maximize" -> maximize_click(a)
      [] button = "close"    -> close_click(a)

InitApp ==
    /\ app = [placement |-> "normal",
              is_down |-> [b \in ChromeButtons |-> FALSE],
              queue |-> <<>>,
              alive |-> TRUE,
              quit |-> FALSE]
    /\ app_last = [step |-> "none", chain |-> <<>>]

\* WM_LBUTTONDOWN of a chrome button (a minimized window shows no button)
Chrome_WM_LBUTTONDOWN ==
    \E button \in ChromeButtons :
        /\ app.alive
        /\ app.placement # "minimized"
        /\ app' = [app EXCEPT !.is_down[button] = TRUE]
        /\ app_last' = [step |-> "WM_LBUTTONDOWN",
                        button |-> button,
                        chain |-> app_last.chain]
        /\ UNCHANGED <<btnvars, chromevars, rectvars, regvars, tabvars, lifevars, procvars>>

\* WM_LBUTTONUP of a chrome button: Button's handler, click_cb set by on_created
Chrome_WM_LBUTTONUP ==
    \E button \in ChromeButtons, over \in BOOLEAN :
        LET b == [is_down |-> app.is_down[button], click_cb |-> TRUE]
            calls == LButtonUpClick("Button", b, over)
            clicked == Has(calls, "click_cb")
            cb == IF clicked
                  THEN ChromeClick(button, app)
                  ELSE [calls |-> <<>>, app |-> app]
            after == [cb.app EXCEPT !.is_down[button] = FALSE]
        IN
        /\ app.alive
        /\ app.placement # "minimized"
        /\ clicked /\ button = "close" => Len(app.queue) < MaxQueue
        /\ app' = after
        /\ app_last' = [step |-> "WM_LBUTTONUP",
                        button |-> button,
                        over |-> over,
                        was_down |-> app.is_down[button],
                        clicked |-> clicked,
                        before |-> app.placement,
                        queued |-> Len(app.queue),
                        calls |-> cb.calls,
                        alive_at_return |-> cb.app.alive,
                        two_ago |-> app_last.chain,
                        chain |-> IF clicked /\ button = "maximize"
                                  THEN Some(app.placement)
                                  ELSE IF clicked THEN <<>>
                                  ELSE app_last.chain]
        /\ UNCHANGED <<btnvars, chromevars, rectvars, regvars, tabvars, lifevars, procvars>>

\* platform: the user maximizes, restores or minimizes the window by other
\* means (caption double-click, snapping, the taskbar)
PlatformShow ==
    \E placement \in Placements :
        /\ app.alive
        /\ placement # app.placement
        /\ app' = [app EXCEPT !.placement = placement]
        /\ app_last' = [step |-> "PlatformShow", chain |-> <<>>]
        /\ UNCHANGED <<btnvars, chromevars, rectvars, regvars, tabvars, lifevars, procvars>>

\* platform: Alt+F4 or the system menu ask the window to close
PlatformClose ==
    /\ app.alive
    /\ Len(app.queue) < MaxQueue
    /\ app' = [app EXCEPT !.queue = Append(@, "WM_CLOSE")]
    /\ app_last' = [step |-> "PlatformClose", chain |-> app_last.chain]
    /\ UNCHANGED <<btnvars, chromevars, rectvars, regvars, tabvars, lifevars, procvars>>

\* the message loop dispatches WM_CLOSE: handle_message falls through to
\* DefWindowProcW, which destroys the window; WM_DESTROY posts the quit
Dispatch_WM_CLOSE ==
    /\ app.alive
    /\ app.queue # <<>>
    /\ Head(app.queue) = "WM_CLOSE"
    /\ app' = DestroyWindow([app EXCEPT !.queue = Tail(@)])
    /\ app_last' = [step |-> "WM_CLOSE", chain |-> <<>>]
    /\ UNCHANGED <<btnvars, chromevars, rectvars, regvars, tabvars, lifevars, procvars>>

NextApp ==
    \/ Chrome_WM_LBUTTONDOWN
    \/ Chrome_WM_LBUTTONUP
    \/ PlatformShow
    \/ PlatformClose
    \/ Dispatch_WM_CLOSE

----------------------------------------------------------------------------
(* The constructors (button.rs, tab_bar.rs, main.rs) *)

Components == {"Button", "ToggleButton", "TabBar", "Window"}

\* the class a constructor registers and creates its window with
ClassOf(component) ==
    CASE component = "Button"       -> "CUSTOM_BTN"
      [] component = "ToggleButton" -> "CUSTOM_TBTN"
      [] component = "TabBar"       -> "TAB_BAR"
      [] component = "Window"       -> "testwindowtabs.Window"

\* Button::new after Self::register_class(h_inst): registered is its result,
\* create_ok whether CreateWindowExW returns a window
Button_new(registered, create_ok) ==
    IF registered = "Err"
    THEN [ret |-> "Err", error |-> "WindowsInternal", create_called |-> FALSE]
    ELSE IF ~create_ok
    THEN [ret |-> "Err", error |-> "WindowsInternal", create_called |-> TRUE]
    ELSE [ret |-> "Ok", error |-> <<>>, create_called |-> TRUE]

\* ToggleButton::new
ToggleButton_new(registered, create_ok) ==
    IF registered = "Err"
    THEN [ret |-> "Err", error |-> "WindowsInternal", create_called |-> FALSE]
    ELSE IF ~create_ok
    THEN [ret |-> "Err", error |-> "WindowsInternal", create_called |-> TRUE]
    ELSE [ret |-> "Ok", error |-> <<>>, create_called |-> TRUE]

\* TabBar::new
TabBar_new(registered, create_ok) ==
    IF registered = "Err"
    THEN [ret |-> "Err", error |-> "WindowsInternal", create_called |-> FALSE]
    ELSE IF ~create_ok
    THEN [ret |-> "Err", error |-> "WindowsInternal", create_called |-> TRUE]
    ELSE [ret |-> "Ok", error |-> <<>>, create_called |-> TRUE]

\* Window::new: create_d2d_factory()? comes before the window is created,
\* and CreateWindowExW is wrapped in wpanic_ifisnull!, which panics with the
\* platform error
Window_new(registered, factory_ok, create_ok) ==
    IF registered = "Err"
    THEN [ret |-> "Err", error |-> "WindowsInternal", create_called |-> FALSE]
    ELSE IF ~factory_ok
    THEN [ret |-> "Err", error |-> "Hresult", create_called |-> FALSE]
    ELSE IF ~create_ok
    THEN [ret |-> "panic", error |-> "WindowsInternal", create_called |-> TRUE]
    ELSE [ret |-> "Ok", error |-> <<>>, create_called |-> TRUE]

InitConstruct ==
    ctor = [called |-> FALSE, panicked |-> FALSE]

\* one constructor call; a panic unwinds out of main and ends the process
Construct ==
    \E component \in Components, h_inst \in Instances,
       native_ok \in BOOLEAN, factory_ok \in BOOLEAN, create_ok \in BOOLEAN :
        LET class_name == ClassOf(component)
            sr == set_registered(registry, h_inst, class_name)
            rc == IF class_name \in WutilsClasses
                  THEN register_class(sr.result, native_ok)
                  ELSE Component_register_class(sr.result, native_ok)
            p == <<h_inst, class_name>>
            out == CASE component = "Button" ->
                            Button_new(rc.ret, create_ok)
                     [] component = "ToggleButton" ->
                            ToggleButton_new(rc.ret, create_ok)
                     [] component = "TabBar" ->
                            TabBar_new(rc.ret, create_ok)
                     [] component = "Window" ->
                            Window_new(rc.ret, factory_ok, create_ok)
        IN
        /\ ~ctor.panicked
        /\ native_calls[p] < MaxNative
        /\ registry' = sr.registry
        /\ native_calls' = IF rc.native
                           THEN [native_calls EXCEPT ![p] = @ + 1]
                           ELSE native_calls
        /\ reg_last' = [called |-> reg_last.called \cup {p},
                        pair |-> p,
                        first |-> p \notin reg_last.called,
                        native |-> rc.native,
                        native_ok |-> native_ok,
                        ret |-> rc.ret]
        /\ ctor' = [called |-> TRUE,
                    component |-> component,
                    registered |-> rc.ret,
                    create_called |-> out.create_called,
                    create_ok |-> create_ok,
                    ret |-> out.ret,
                    error |-> out.error,
                    panicked |-> out.ret = "panic"]
        /\ UNCHANGED <<btnvars, chromevars, rectvars, tabvars, appvars,
                       ctl, disp, procvars>>

NextConstruct == Construct

----------------------------------------------------------------------------
(* The lifetime of a control and its flash (button.rs, macros.rs) *)

\* what running handle_message on a freed control can do with the tick: read
\* a deferred_start that makes it spawn again, read one that ends the flash,
\* or fault
FreedOutcomes == {"spawns", "ends", "fault"}

InitDrop ==
    ctl = [boxed |-> TRUE,      \* the Box<Button> has not been dropped
           window |-> TRUE,     \* the native window exists
           userdata |-> TRUE,   \* GWLP_USERDATA holds the Box's address
           entered_freed |-> FALSE,
           faulted |-> FALSE]

\* wnd_proc_gen!: the message reaches handle_message when GWLP_USERDATA is
\* not null
Dispatched(c) == c.window /\ c.userdata

\* a message for the live control
Live_WM_LBUTTONDOWN ==
    /\ ~ctl.faulted
    /\ ctl.boxed
    /\ Dispatched(ctl)
    /\ WM_LBUTTONDOWN

\* the tick reaches the live control
Live_UM_INVALIDATE ==
    /\ ~ctl.faulted
    /\ ctl.boxed
    /\ Dispatched(ctl)
    /\ UM_INVALIDATE

\* the thread's PostMessageW finds the window
ThreadPosts ==
    /\ ~ctl.faulted
    /\ ctl.window
    /\ TimerThread

\* the thread's PostMessageW fails: the window is gone (the result is
\* ignored)
ThreadPostFails ==
    \E t \in timers :
        /\ ~ctl.faulted
        /\ ~ctl.window
        /\ now >= t
        /\ timers' = timers \ {t}
        /\ UNCHANGED <<kind, me, capture, leave_armed, invalid, posted, now,
                       press_pending, press_inside, last, pressed_at,
                       chromevars, rectvars, othervars>>

\* the owner drops the Box<Button>: there is no Drop impl, so the native
\* window and its GWLP_USERDATA stay as they are
DropControl ==
    /\ ~ctl.faulted
    /\ ctl.boxed
    /\ ctl' = [ctl EXCEPT !.boxed = FALSE]
    /\ UNCHANGED <<btnvars, chromevars, rectvars, regvars, tabvars, appvars,
                   ctor, disp, procvars>>

\* platform: the native window is destroyed with its parent; the messages
\* queued for it are discarded
DestroyControlWindow ==
    /\ ~ctl.faulted
    /\ ctl.window
    /\ ctl' = [ctl EXCEPT !.window = FALSE]
    /\ posted' = 0
    /\ UNCHANGED <<kind, me, capture, leave_armed, invalid, timers, now,
                   press_pending, press_inside, last, pressed_at,
                   chromevars, rectvars, regvars, tabvars, appvars,
                   ctor, disp, procvars>>

\* the tick is dispatched to the window of a dropped control: wnd_proc_gen!
\* finds GWLP_USERDATA not null and calls handle_message on the freed Box
Freed_UM_INVALIDATE ==
    \E outcome \in FreedOutcomes :
        /\ ~ctl.faulted
        /\ ~ctl.boxed
        /\ Dispatched(ctl)
        /\ posted > 0
        /\ posted' = posted - 1
        /\ timers' = IF outcome = "spawns"
                     THEN timers \cup {now + SLEEP_MS}
                     ELSE timers
        /\ ctl' = [ctl EXCEPT !.entered_freed = TRUE,
                              !.faulted = outcome = "fault"]
        /\ UNCHANGED <<kind, me, capture, leave_armed, invalid, now,
                       press_pending, press_inside, last, pressed_at,
                       chromevars, rectvars, regvars, tabvars, appvars,
                       ctor, disp, procvars>>

NextDrop ==
    \/ Live_WM_LBUTTONDOWN
    \/ Live_UM_INVALIDATE
    \/ ThreadPosts
    \/ ThreadPostFails
    \/ DropControl
    \/ DestroyControlWindow
    \/ Freed_UM_INVALIDATE
    \/ Advance

----------------------------------------------------------------------------
(* The UI thread's handlers and the messages their calls send (main.rs,    *)
(* button.rs).  A frame is a handler that has been entered and has not     *)
(* returned: its window, its message and the calls it has still to make.   *)

ChromeWindows == ChromeButtons \cup {"window"}

\* the calls of a handler, in order; a is the window as the handler finds it
HandlerCalls(wnd, msg, clicked, a) ==
    CASE wnd \in ChromeButtons /\ msg = "WM_LBUTTONDOWN" ->
            <<<<"self.is_down", TRUE>>, <<"InvalidateRect">>, <<"SetCapture">>>>
      [] wnd \in ChromeButtons /\ msg = "WM_LBUTTONUP" ->
            (IF clicked THEN ChromeClick(wnd, a).calls ELSE <<>>)
            \o <<<<"self.is_down", FALSE>>, <<"ReleaseCapture">>,
                 <<"DefWindowProcW", msg>>>>
      [] wnd = "window" /\ msg = "WM_SIZE" ->
            <<<<"MoveWindow", "minimize">>, <<"MoveWindow", "maximize">>,
              <<"MoveWindow", "close">>, <<"DefWindowProcW", msg>>>>
      [] wnd = "window" /\ msg = "WM_DESTROY" ->
            <<<<"PostQuitMessage">>>>
      [] wnd = "window" /\ msg = "WM_ERASEBKGND" ->
            <<>>
      [] msg = "WM_PAINT" ->
            <<<<"BeginPaint", wnd>>, <<"FillRect">>, <<"EndPaint">>,
              <<"DefWindowProcW", msg>>>>
      [] OTHER ->
            <<<<"DefWindowProcW", msg>>>>

\* what the handler returns: a value of its own, or DefWindowProcW's
HandlerRet(wnd, msg) ==
    CASE wnd \in ChromeButtons /\ msg = "WM_LBUTTONDOWN" -> "1"
      [] wnd = "window" /\ msg = "WM_DESTROY" -> "0"
      [] wnd = "window" /\ msg = "WM_ERASEBKGND" -> "1"
      [] OTHER -> "DefWindowProcW"

\* platform: the message a call sends to a window of the calling thread; the
\* window procedure runs before the call returns
Sends(call) ==
    CASE call[1] = "ShowWindow" -> <<<<"window", "WM_SIZE">>>>
      [] call[1] = "MoveWindow" -> <<<<call[2], "WM_WINDOWPOSCHANGING">>>>
      [] call = <<"DefWindowProcW", "WM_CLOSE">> -> <<<<"window", "WM_DESTROY">>>>
      [] call[1] = "BeginPaint" -> <<<<call[2], "WM_ERASEBKGND">>>>
      [] OTHER -> <<>>

\* what a call made by the handler of wnd leaves of the window
Effect(call, wnd, a) ==
    CASE call[1] = "self.is_down" -> [a EXCEPT !.is_down[wnd] = call[2]]
      [] call[1] = "ShowWindow" ->
            [a EXCEPT !.placement = ShowWindow(@, call[2])]
      [] call = <<"PostMessageW", "WM_CLOSE">> ->
            [a EXCEPT !.queue = Append(@, "WM_CLOSE")]
      [] call = <<"DefWindowProcW", "WM_CLOSE">> -> [a EXCEPT !.alive = FALSE]
      [] call[1] = "PostQuitMessage" -> [a EXCEPT !.quit = TRUE]
      [] OTHER -> a

\* wnd_proc: the handler of wnd is entered for msg
Frame(wnd, msg, clicked, a) ==
    [wnd |-> wnd, msg |-> msg, calls |-> HandlerCalls(wnd, msg, clicked, a),
     ret |-> HandlerRet(wnd, msg)]

InitDispatch == disp = <<>>

\* the message loop dispatches a mouse message to a chrome button
Pump_Button ==
    \E button \in ChromeButtons,
       msg \in {"WM_LBUTTONDOWN", "WM_LBUTTONUP"}, over \in BOOLEAN :
        LET clicked == msg = "WM_LBUTTONUP" /\ over /\ app.is_down[button]
        IN
        /\ disp = <<>>
        /\ app.alive
        /\ app.placement # "minimized"
        /\ clicked /\ button = "close" => Len(app.queue) < MaxQueue
        /\ disp' = <<Frame(button, msg, clicked, app)>>
        /\ UNCHANGED <<btnvars, chromevars, rectvars, regvars, tabvars,
                       appvars, ctor, ctl, procvars>>

\* platform: the window was resized, maximized, restored or minimized by
\* other means; the message loop delivers its WM_SIZE
Pump_WM_SIZE ==
    \E placement \in Placements :
        /\ disp = <<>>
        /\ app.alive
        /\ app' = [app EXCEPT !.placement = placement]
        /\ disp' = <<Frame("window", "WM_SIZE", FALSE, app)>>
        /\ UNCHANGED <<btnvars, chromevars, rectvars, regvars, tabvars,
                       app_last, ctor, ctl, procvars>>

\* the message loop delivers WM_PAINT for an update region the platform
\* invalidated (exposure, resize: marked for erasing, so BeginPaint sends
\* WM_ERASEBKGND)
Pump_WM_PAINT ==
    \E wnd \in ChromeWindows :
        /\ disp = <<>>
        /\ app.alive
        /\ app.placement # "minimized"
        /\ disp' = <<Frame(wnd, "WM_PAINT", FALSE, app)>>
        /\ UNCHANGED <<btnvars, chromevars, rectvars, regvars, tabvars,
                       appvars, ctor, ctl, procvars>>

\* the message loop dispatches the posted WM_CLOSE
Pump_WM_CLOSE ==
    /\ disp = <<>>
    /\ app.alive
    /\ app.queue # <<>>
    /\ app' = [app EXCEPT !.queue = Tail(@)]
    /\ disp' = <<Frame("window", Head(app.queue), FALSE, app)>>
    /\ UNCHANGED <<btnvars, chromevars, rectvars, regvars, tabvars,
                   app_last, ctor, ctl, procvars>>

\* the innermost handler makes its next call; a message the call sends
\* enters the handler of its window at once
HandlerCall ==
    LET top == disp[Len(disp)]
        call == Head(top.calls)
        after == Effect(call, top.wnd, app)
        rest == [disp EXCEPT ![Len(disp)].calls = Tail(top.calls)]
        sent == Sends(call)
    IN
    /\ disp # <<>>
    /\ top.calls # <<>>
    /\ app' = after
    /\ disp' = IF sent = <<>>
               THEN rest
               ELSE Append(rest, Frame(sent[1][1], sent[1][2], FALSE, after))
    /\ UNCHANGED <<btnvars, chromevars, rectvars, regvars, tabvars,
                   app_last, ctor, ctl, procvars>>

\* the innermost handler returns
HandlerReturn ==
    /\ disp # <<>>
    /\ disp[Len(disp)].calls = <<>>
    /\ disp' = SubSeq(disp, 1, Len(disp) - 1)
    /\ UNCHANGED <<btnvars, chromevars, rectvars, regvars, tabvars,
                   appvars, ctor, ctl, procvars>>

NextDispatch ==
    \/ Pump_Button
    \/ Pump_WM_SIZE
    \/ Pump_WM_PAINT
    \/ Pump_WM_CLOSE
    \/ HandlerCall
    \/ HandlerReturn

----------------------------------------------------------------------------
(* Specifications *)

IdleButton ==
    /\ kind = "Button"
    /\ me = NewControl
    /\ capture = FALSE
    /\ leave_armed = FALSE
    /\ invalid = TRUE
    /\ posted = 0
    /\ timers = {}
    /\ now = 0
    /\ press_pending = FALSE
    /\ press_inside = FALSE
    /\ pressed_at = <<>>
    /\ last = [msg |-> "none"]

IdleChrome ==
    /\ win = [created |-> FALSE]
    /\ child_rects = <<>>
    /\ hit = <<>>

IdleRects ==
    /\ title_bar_rect = <<>>
    /\ rects_dpi = 0
    /\ button_rects = <<>>

IdleRegistry ==
    /\ registry = <<>>
    /\ native_calls = <<>>
    /\ reg_last = <<>>

IdleTabBar ==
    /\ tab_bar = <<>>
    /\ tab_last = <<>>

IdleApp ==
    /\ app = <<>>
    /\ app_last = <<>>

IdleConstruct == ctor = <<>>

IdleDrop == ctl = <<>>

IdleDispatch == disp = <<>>

IdleLife == IdleConstruct /\ IdleDrop /\ IdleDispatch

IdleFail == fail = <<>>

IdleLoop == loop = <<>>

IdleWndProc == wp = <<>>

IdleProc == IdleFail /\ IdleLoop /\ IdleWndProc

IdleOthers == IdleRegistry /\ IdleTabBar /\ IdleApp /\ IdleLife /\ IdleProc

Init == InitButton /\ IdleChrome /\ IdleRects /\ IdleOthers

Next ==
    \/ on_click
    \/ on_paint
    \/ on_paint_last
    \/ call_toggle
    \/ WM_LBUTTONDOWN
    \/ WM_LBUTTONUP
    \/ WM_MOUSEMOVE
    \/ WM_MOUSELEAVE
    \/ WM_PAINT
    \/ UM_INVALIDATE
    \/ TimerThread
    \/ Advance

Spec == Init /\ [][Next]_vars

\* the last value the clock takes
LastTick == (MaxTime \div ClockStep) * ClockStep

\* WM_LBUTTONDOWN early enough for the clock to reach the end of its flash
PressInTime ==
    /\ now + FLASH_MS <= LastTick
    /\ WM_LBUTTONDOWN

NextFlash ==
    \/ on_click
    \/ on_paint
    \/ on_paint_last
    \/ call_toggle
    \/ PressInTime
    \/ WM_LBUTTONUP
    \/ WM_MOUSEMOVE
    \/ WM_MOUSELEAVE
    \/ WM_PAINT
    \/ UM_INVALIDATE
    \/ TimerThread
    \/ Advance

\* the message loop takes every posted tick from the queue, a sleeping
\* thread wakes and posts, and time passes
FlashFairness ==
    /\ WF_vars(UM_INVALIDATE)
    /\ WF_vars(TimerThread)
    /\ WF_vars(Advance)

SpecFlash == Init /\ [][NextFlash]_vars /\ FlashFairness

InitSpecChrome == InitChrome /\ IdleButton /\ IdleRects /\ IdleOthers

SpecChrome == InitSpecChrome /\ [][NextChrome]_vars

InitSpecHitTest ==
    InitChrome /\ win.width = 500 /\ IdleButton /\ IdleRects /\ IdleOthers

SpecHitTest == InitSpecHitTest /\ [][NextHitTest]_vars

InitSpecRects == InitRects /\ IdleButton /\ IdleChrome /\ IdleOthers

NextRects == ApplyButtonRects

SpecRects == InitSpecRects /\ [][NextRects]_vars

InitSpecRegistry ==
    /\ InitRegistry /\ IdleButton /\ IdleChrome /\ IdleRects
    /\ IdleTabBar /\ IdleApp /\ IdleLife /\ IdleProc

SpecRegistry == InitSpecRegistry /\ [][NextRegistry]_vars

InitSpecTabBar ==
    /\ InitTabBar /\ IdleButton /\ IdleChrome /\ IdleRects
    /\ IdleRegistry /\ IdleApp /\ IdleLife /\ IdleProc

SpecTabBar == InitSpecTabBar /\ [][NextTabBar]_vars

InitSpecApp ==
    /\ InitApp /\ IdleButton /\ IdleChrome /\ IdleRects
    /\ IdleRegistry /\ IdleTabBar /\ IdleLife /\ IdleProc

SpecApp == InitSpecApp /\ [][NextApp]_vars

InitSpecConstruct ==
    /\ InitRegistry /\ InitConstruct
    /\ IdleButton /\ IdleChrome /\ IdleRects /\ IdleTabBar /\ IdleApp
    /\ IdleDrop /\ IdleDispatch /\ IdleProc

SpecConstruct == InitSpecConstruct /\ [][NextConstruct]_vars

InitSpecDrop ==
    /\ InitButton /\ InitDrop
    /\ IdleChrome /\ IdleRects /\ IdleRegistry /\ IdleTabBar /\ IdleApp
    /\ IdleConstruct /\ IdleDispatch /\ IdleProc

SpecDrop == InitSpecDrop /\ [][NextDrop]_vars

InitSpecDispatch ==
    /\ InitApp /\ InitDispatch
    /\ IdleButton /\ IdleChrome /\ IdleRects /\ IdleRegistry /\ IdleTabBar
    /\ IdleConstruct /\ IdleDrop /\ IdleProc

SpecDispatch == InitSpecDispatch /\ [][NextDispatch]_vars

----------------------------------------------------------------------------
(* Claims about the control, checked under Spec *)

\* position of the first call x among the calls of a handler (0: none)
First(calls, x) ==
    IF Has(calls, x)
    THEN CHOOSE i \in 1..Len(calls) :
             calls[i] = x /\ \A j \in 1..(i - 1) : calls[j] # x
    ELSE 0

\* C1: with an onClick handler registered, a PrimaryButtonUp that follows a
\* PrimaryButtonDown, the cursor inside at both, invokes onClick exactly once;
\* a ToggleButton flips isToggled exactly once, before onClick, which sees the
\* new value.  No other message invokes onClick.
C1_ClickOncePerPair ==
    /\ Has(last.effects, "click_cb") => last.msg = "WM_LBUTTONUP"
    /\ (last.msg = "WM_LBUTTONUP" /\ last.pending /\ last.press_inside
            /\ last.over /\ last.click_cb)
       => /\ Count(last.effects, "click_cb") = 1
          /\ kind = "Button" => /\ ~Has(last.effects, "toggle")
                                /\ me.is_toggled = last.old_is_toggled
          /\ kind = "ToggleButton" =>
                /\ Count(last.effects, "toggle") = 1
                /\ me.is_toggled = ~last.old_is_toggled
                /\ First(last.effects, "toggle") < First(last.effects, "click_cb")
                /\ last.cb_toggled = Some(me.is_toggled)

C1_Witness ==
    /\ kind = "ToggleButton"
    /\ last.msg = "WM_LBUTTONUP"
    /\ last.pending /\ last.press_inside /\ last.over /\ last.click_cb
    /\ Has(last.effects, "click_cb")
    /\ me.is_toggled

\* C2: a PrimaryButtonUp of a Down/Up pair handled with the cursor outside
\* the bounds invokes no onClick and leaves isToggled unchanged.
C2_NoClickOutside ==
    (last.msg = "WM_LBUTTONUP" /\ last.pending /\ ~last.over)
    => /\ ~Has(last.effects, "click_cb")
       /\ ~Has(last.effects, "toggle")
       /\ me.is_toggled = last.old_is_toggled

C2_Witness ==
    /\ kind = "ToggleButton"
    /\ last.msg = "WM_LBUTTONUP"
    /\ last.pending /\ last.press_inside /\ ~last.over
    /\ last.old_is_down /\ last.click_cb
    /\ me.state = "None"

\* C3: state == Down implies the button holds the mouse capture.
C3_DownHoldsCapture == me.state = "Down" => capture

C3_Witness ==
    /\ me.state = "Down"
    /\ capture
    /\ last.msg = "WM_MOUSEMOVE"
    /\ last.old_state = "None"

\* C4: the state is one of None, Hover, Down, and it is None right after any
\* MouseLeave, whatever it was before.
C4_NoneAfterLeave ==
    /\ me.state \in State
    /\ last.msg = "WM_MOUSELEAVE" => me.state = "None"

C4_Witness ==
    /\ last.msg = "WM_MOUSELEAVE"
    /\ last.old_state = "Down"
    /\ me.is_down
    /\ me.state = "None"

\* the color set in effect: toggledColors if isToggled, else colors; a plain
\* Button always uses colors
EffectiveColors ==
    IF kind = "ToggleButton" /\ me.is_toggled THEN Colors_toggled ELSE Colors_default

\* C5 as stated: the color of the default fill is the entry for the current
\* state of the effective color set, whatever the rest of the control's state.
C5_ColorFromStateOnly ==
    (last.msg = "WM_PAINT" /\ last.bg_color # <<>>)
    => last.bg_color = Some(StateColor(EffectiveColors, me.state))

\* C5 amended: the color of the default fill is the down entry of the
\* effective color set while the visually-pressed flash flag is set, and the
\* entry for the current state otherwise; it is defined for every
\* (state, isToggled, flash flag) and depends on nothing else.
C5_ColorFromStateAndFlash ==
    last.msg = "WM_PAINT"
    => /\ Has(last.effects, "FillRect") <=> last.bg_color # <<>>
       /\ Has(last.effects, "FillRect") <=> ~Has(last.effects, "paint_cb")
       /\ last.bg_color # <<>>
          => last.bg_color =
                Some(IF me.is_visual_down
                     THEN EffectiveColors.down
                     ELSE StateColor(EffectiveColors, me.state))

C5_Witness ==
    /\ kind = "ToggleButton"
    /\ last.msg = "WM_PAINT"
    /\ me.is_toggled
    /\ me.is_visual_down
    /\ me.state = "Hover"
    /\ last.bg_color = Some(RGB(50, 50, 50))

\* C12: every Paint invokes onPaint instead of the default fill if onPaint
\* is set and performs the default fill otherwise; then onPaintLast, if set,
\* is invoked exactly once, after the base paint and before the paint ends.
C12_PaintOrder ==
    last.msg = "WM_PAINT"
    => LET e == last.effects
           base == IF last.paint_cb THEN "paint_cb" ELSE "FillRect"
       IN  /\ Count(e, "BeginPaint") = 1 /\ Count(e, "EndPaint") = 1
           /\ last.paint_cb => Count(e, "paint_cb") = 1 /\ ~Has(e, "FillRect")
           /\ ~last.paint_cb => Count(e, "FillRect") = 1 /\ ~Has(e, "paint_cb")
           /\ First(e, "BeginPaint") < First(e, base)
           /\ First(e, base) < First(e, "EndPaint")
           /\ last.paint_last_cb
              => /\ Count(e, "paint_last_cb") = 1
                 /\ First(e, base) < First(e, "paint_last_cb")
                 /\ First(e, "paint_last_cb") < First(e, "EndPaint")
           /\ ~last.paint_last_cb => ~Has(e, "paint_last_cb")

C12_Witness ==
    /\ kind = "ToggleButton"
    /\ last.msg = "WM_PAINT"
    /\ last.paint_cb /\ last.paint_last_cb
    /\ last.effects = <<"BeginPaint", "paint_cb", "paint_last_cb", "EndPaint",
                        "DefWindowProcW">>

\* C13: while less than the threshold (50 ms) has elapsed since the most
\* recent PrimaryButtonDown, the visually-pressed flag is set and a default
\* Paint fills with the down color, whatever messages arrived since; a second
\* press during the flash restarts the threshold.
C13_FlashHolds ==
    (pressed_at # <<>> /\ now - pressed_at[1] < 50)
    => /\ me.is_visual_down
       /\ (last.msg = "WM_PAINT" /\ last.bg_color # <<>>)
          => last.bg_color = Some(EffectiveColors.down)

C13_Witness ==
    /\ pressed_at = Some(ClockStep)
    /\ now = 2 * ClockStep
    /\ last.msg = "WM_PAINT"
    /\ last.old_state = "None"
    /\ ~me.is_down
    /\ me.is_visual_down
    /\ last.bg_color = Some(RGB(60, 60, 60))

\* C14: toggle() flips isToggled, requests a redraw and returns the new
\* value; it changes neither the state nor the press in progress; a toggle()
\* that follows a toggle() restores the value before the first.
C14_ToggleFlips ==
    [][(last' # last /\ last'.msg = "toggle")
       => /\ me'.is_toggled = ~me.is_toggled
          /\ last'.ret = Bool(~me.is_toggled)
          /\ Has(last'.effects, "InvalidateRect")
          /\ invalid'
          /\ me'.state = me.state
          /\ me'.is_down = me.is_down
          /\ last.msg = "toggle" => me'.is_toggled = last.old_is_toggled]_vars

C14_Witness ==
    /\ last.msg = "toggle"
    /\ last.old_is_toggled
    /\ ~me.is_toggled
    /\ last.ret = "false"
    /\ me.state = "Down"
    /\ me.is_down

----------------------------------------------------------------------------
(* Claims about the hit test, checked under SpecHitTest *)

\* the title bar's bottom: the DPI-scaled caption height plus the 2-pixel
\* border constant
TitleBarBottom == (win.caption_cy * win.dpi) \div 96 + 2

\* the height of the top resize-padding band: the DPI-scaled frame height
\* plus the padded border
TopBand == get_system_metrics_for_dpi(win.dpi) + get_system_metrics_for_dpi(win.dpi)

CaptionOrClient == IF hit.y < TitleBarBottom THEN "HTCAPTION" ELSE "HTCLIENT"

\* C6 as stated: whenever the platform default is not a resize border and the
\* cursor is not in the top band, the result is caption above the title bar's
\* bottom and client at or below it.
C6_CaptionAboveBottom_AsStated ==
    (hit # <<>> /\ hit.default \notin ResizeBorders
        /\ ~(0 <= hit.y /\ hit.y < TopBand))
    => hit.result = CaptionOrClient

\* C6 amended: whenever the platform default is neither a resize border nor
\* nowhere and the cursor is not in the top band, the result is caption above
\* the title bar's bottom and client at or below it; at DPI 96 with caption
\* height 23 rows 10 and 24 are caption, rows 25 and 30 client.
C6_CaptionAboveBottom ==
    (hit # <<>> /\ hit.default \notin ResizeBorders \cup {"HTNOWHERE"})
    => /\ ~(0 < hit.y /\ hit.y < TopBand) => hit.result = CaptionOrClient
       /\ (win.dpi = 96 /\ win.caption_cy = 23)
          => /\ hit.y \in {10, 24} => hit.result = "HTCAPTION"
             /\ hit.y \in {25, 30} => hit.result = "HTCLIENT"

C6_Witness ==
    /\ hit # <<>>
    /\ win.dpi = 96 /\ win.caption_cy = 23
    /\ hit.default = "HTCLIENT"
    /\ hit.y = 24
    /\ hit.result = "HTCAPTION"

\* C7: whenever the platform default is not a resize border and the cursor's
\* row lies in the top band, 0 <= Y < frame height + padded border, the result
\* is resize-top.  Stated for the default results the handler recomputes
\* (nowhere is returned as it is, see C8).
C7_TopBandIsResizeTop ==
    (hit # <<>> /\ hit.default \notin ResizeBorders \cup {"HTNOWHERE"}
        /\ 0 <= hit.y /\ hit.y < TopBand)
    => hit.result = "HTTOP"

\* C8 as stated: the eight resize codes are returned unchanged; every other
\* default result is recomputed to resize-top, caption or client.
C8_ResizeBordersPassThrough_AsStated ==
    hit # <<>>
    => /\ hit.default \in ResizeBorders => hit.result = hit.default
       /\ hit.default \notin ResizeBorders
          => hit.result \in {"HTTOP", "HTCAPTION", "HTCLIENT"}

\* C8 amended: the eight resize codes and nowhere are returned unchanged;
\* every other default result is recomputed to resize-top, caption or client.
C8_ResizeBordersPassThrough ==
    hit # <<>>
    => /\ hit.default \in ResizeBorders \cup {"HTNOWHERE"}
          => hit.result = hit.default
       /\ hit.default \notin ResizeBorders \cup {"HTNOWHERE"}
          => hit.result \in {"HTTOP", "HTCAPTION", "HTCLIENT"}

C8_Witness ==
    /\ hit # <<>>
    /\ hit.default = "HTTOPRIGHT"
    /\ hit.y = 3
    /\ hit.result = "HTTOPRIGHT"

----------------------------------------------------------------------------
(* Claims about the layout, checked under SpecChrome and SpecRects *)

\* C9: a second run of reposition_components with no change to the client
\* rectangle or the DPI since the first leaves every child where it was.
C9_RepositionIdempotent ==
    win.runs = 2 => child_rects = win.before

C9_Witness ==
    /\ win.runs = 2
    /\ win.created
    /\ win.width = 800
    /\ child_rects.close.right = 800
    /\ child_rects.minimize.left < child_rects.maximize.left

Width(r) == r.right - r.left

\* C10: close ends at the title bar's right edge; the three buttons are
\* dpi_scale(47, dpi) wide, abut (minimize, maximize, close from the left) and
\* span from the title bar's top + 1 to its bottom.
C10_ButtonRects ==
    button_rects # <<>>
    => LET close == button_rects.close
           maximize == button_rects.maximize
           minimize == button_rects.minimize
       IN  /\ close.right = title_bar_rect.right
           /\ \A r \in {close, maximize, minimize} :
                 /\ Width(r) = dpi_scale(47, rects_dpi)
                 /\ r.top = title_bar_rect.top + 1
                 /\ r.bottom = title_bar_rect.bottom
           /\ maximize.right = close.left
           /\ minimize.right = maximize.left
           /\ minimize.left < maximize.left /\ maximize.left < close.left

C10_Witness ==
    /\ button_rects # <<>>
    /\ rects_dpi = 144
    /\ title_bar_rect.top = 2
    /\ title_bar_rect.left = 0 - 1
    /\ button_rects.minimize.left = title_bar_rect.right - 210
    /\ button_rects.close.top = 3

----------------------------------------------------------------------------
(* Claims about the chrome window's children, checked under SpecChrome *)

\* the width of a chrome button at the window's DPI
ChromeButtonWidth == (47 * win.dpi) \div 96

\* the k-th chrome button from the right (close is 1), laid out by hand from
\* the window's current client width, caption height and DPI
ExpectedButton(k) ==
    RECT(win.width - k * ChromeButtonWidth, 1,
         win.width - (k - 1) * ChromeButtonWidth,
         (win.caption_cy * win.dpi) \div 96 + 2)

TabStripRect ==
    IF "tab_bar" \in DOMAIN child_rects THEN Some(child_rects.tab_bar) ELSE <<>>

\* C20: after creation and after every resize the tab strip is at the band
\* whose right edge is the minimize button's left edge and whose top lies
\* below the shadow height; its width follows the window's width.
C20_TabStripBand ==
    (win.created /\ win.runs > 0)
    => /\ win.tab_rect # <<>>
       /\ win.tab_rect[1].right = child_rects.minimize.left
       /\ win.tab_rect[1].top > FAKE_SHADOW_HEIGHT
       /\ win.tab_rect[1].left = 0
       /\ Width(win.tab_rect[1]) = win.width - 3 * ChromeButtonWidth
       /\ TabStripRect = win.tab_rect

----------------------------------------------------------------------------
(* Claims about the class registry, checked under SpecRegistry *)

\* C15: RegisterClassW is attempted at most once per (instance handle, class
\* name) pair: by the first register_class call for the pair, whatever other
\* pairs are registered; every later call for the pair returns success
\* without registering again.
C15_RegisterOnce ==
    /\ \A p \in RegistryPairs :
          /\ native_calls[p] <= 1
          /\ native_calls[p] = 1 <=> p \in reg_last.called
    /\ reg_last.called # {}
       => /\ reg_last.first <=> reg_last.native
          /\ ~reg_last.first => reg_last.ret = "Ok"
          /\ reg_last.first
             => reg_last.ret = (IF reg_last.native_ok THEN "Ok" ELSE "Err")

C15_Witness ==
    /\ reg_last.called = {<<1, "CUSTOM_BTN">>, <<2, "CUSTOM_BTN">>,
                          <<1, "testwindowtabs.Window">>}
    /\ reg_last.pair = <<1, "testwindowtabs.Window">>
    /\ ~reg_last.first
    /\ ~reg_last.native
    /\ ~reg_last.native_ok
    /\ reg_last.ret = "Ok"

----------------------------------------------------------------------------
(* Claims about the click wiring, checked under SpecApp *)

\* the last step was a completed click on the button
CompletedClick(button) ==
    /\ app_last.step = "WM_LBUTTONUP"
    /\ app_last.button = button
    /\ app_last.was_down
    /\ app_last.over

\* C16: a completed click on the maximize button issues exactly one
\* show-window request, chosen from the window's state at click time: restore
\* if it is maximized, maximize otherwise; the second of two consecutive
\* clicks returns a normal or maximized window to where it started.
C16_MaximizeToggles ==
    CompletedClick("maximize")
    => /\ app_last.calls =
            <<<<"ShowWindow", IF app_last.before = "maximized"
                              THEN "SW_NORMAL" ELSE "SW_MAXIMIZE">>>>
       /\ app.placement =
            (IF app_last.before = "maximized" THEN "normal" ELSE "maximized")
       /\ (app_last.two_ago # <<>>
              /\ app_last.two_ago[1] \in {"normal", "maximized"})
          => app.placement = app_last.two_ago[1]

C16_Witness ==
    /\ CompletedClick("maximize")
    /\ app_last.two_ago = Some("maximized")
    /\ app_last.before = "normal"
    /\ app.placement = "maximized"

\* C17: a completed click on the close button only posts a close request to
\* the window's queue, the window being alive when the handler returns; the
\* window is destroyed, and the quit posted, only by the dispatch of a close
\* request.
C17_CloseIsPosted ==
    /\ CompletedClick("close")
       => /\ app_last.calls = <<<<"PostMessageW", "WM_CLOSE">>>>
          /\ app_last.alive_at_return
          /\ app.alive /\ ~app.quit
          /\ Len(app.queue) = app_last.queued + 1
          /\ app.queue[Len(app.queue)] = "WM_CLOSE"
    /\ ~app.alive => app_last.step = "WM_CLOSE"
    /\ app.quit <=> ~app.alive

C17_Witness ==
    /\ ~app.alive
    /\ app.quit
    /\ app_last.step = "WM_CLOSE"
    /\ app.is_down["close"] = FALSE
    /\ app.placement = "maximized"

----------------------------------------------------------------------------
(* Claims about the tab strip, checked under SpecTabBar *)

\* the elements of a sequence
Range(seq) == {seq[i] : i \in 1..Len(seq)}

\* p is a prefix of q
IsPrefix(p, q) == Len(p) <= Len(q) /\ SubSeq(q, 1, Len(p)) = p

\* C18: tabOrder holds exactly the keys of the id-to-button mapping, without
\* duplicates, and every message leaves the previous tabOrder as a prefix of
\* the new one; addItem appends exactly one id.
C18_TabOrderAppendOnly ==
    tab_last.msg # "none"
    => /\ Range(tab_bar.tab_order) = DOMAIN tab_bar.tab_buttons
       /\ Cardinality(Range(tab_bar.tab_order)) = Len(tab_bar.tab_order)
       /\ IsPrefix(tab_last.tab_order, tab_bar.tab_order)
       /\ tab_last.msg = "UM_ADDTAB"
          => Len(tab_bar.tab_order) = Len(tab_last.tab_order) + 1
       /\ tab_last.msg # "UM_ADDTAB" => tab_bar.tab_order = tab_last.tab_order

C18_Witness ==
    /\ tab_last.msg = "UM_ADDTAB"
    /\ tab_last.tab_order = <<0, 1>>
    /\ tab_bar.tab_order = <<0, 1, 2>>
    /\ DOMAIN tab_bar.tab_buttons = {0, 1, 2}

\* C19: after every message of a tab strip holding n tabs the add button's
\* left edge is at 4 + 12n and the tab at position i (from 0) occupies
\* [4 + 12i, 14 + 12i); an addItem shifts the add button right by 12 and a
\* resize moves no left edge.
C19_TabLayout ==
    tab_last.msg # "none"
    => LET n == Len(tab_bar.tab_order) IN
       /\ tab_bar.add_button # <<>>
       /\ tab_bar.add_button[1].left = 4 + 12 * n
       /\ \A i \in 1..n :
             LET r == tab_bar.tab_buttons[tab_bar.tab_order[i]] IN
             /\ r.left = 4 + 12 * (i - 1)
             /\ r.right = 14 + 12 * (i - 1)
       /\ \A i, j \in 1..n :
             i < j => tab_bar.tab_buttons[tab_bar.tab_order[i]].right
                      <= tab_bar.tab_buttons[tab_bar.tab_order[j]].left
       /\ tab_last.msg = "UM_ADDTAB"
          => tab_bar.add_button[1].left = tab_last.add_button[1].left + 10 + 2
       /\ tab_last.msg = "WM_SIZE"
          => /\ tab_bar.add_button[1].left = tab_last.add_button[1].left
             /\ \A id \in DOMAIN tab_last.tab_buttons :
                   tab_bar.tab_buttons[id].left = tab_last.tab_buttons[id].left

C19_Witness ==
    /\ tab_last.msg = "WM_SIZE"
    /\ Len(tab_bar.tab_order) = 2
    /\ tab_bar.client.right = 500
    /\ tab_bar.add_button[1].left = 28
    /\ tab_bar.add_button[1].right = 68
    /\ tab_bar.tab_buttons[1] = RECT(16, 0 - 10, 26, 30)

----------------------------------------------------------------------------
(* Claims about the release, the move and the press, checked under Spec *)

\* C22 as stated: after WM_LBUTTONUP the state is Hover if a press was in
\* progress and the cursor is inside the control, and None in every other
\* case.
C22_ReleaseState_AsStated ==
    last.msg = "WM_LBUTTONUP" =>
        me.state = (IF last.old_is_down /\ last.over THEN "Hover" ELSE "None")

\* C22: after WM_LBUTTONUP the state is Hover if the cursor is inside the
\* control, whether or not a press was in progress, and None if the cursor
\* is outside.
C22_ReleaseState ==
    last.msg = "WM_LBUTTONUP" =>
        me.state = (IF last.over THEN "Hover" ELSE "None")

\* a release inside the control with no press in progress left Hover
C22_Witness ==
    /\ last.msg = "WM_LBUTTONUP"
    /\ last.over
    /\ ~last.old_is_down
    /\ me.state = "Hover"

\* C23: a WM_MOUSEMOVE handled while the cursor is outside the control never
\* sets the state to Hover: the state it leaves is the state it found, with
\* a press in progress and with none.
C23_NoHoverOutside ==
    last.msg = "WM_MOUSEMOVE" /\ ~last.over => me.state = last.old_state

\* C24: after WM_LBUTTONDOWN, from any prior state, the state is Down, the
\* press is in progress, a redraw is requested, the control holds the mouse
\* capture, and the handler returned 1 without calling DefWindowProcW.
C24_PressHandled ==
    last.msg = "WM_LBUTTONDOWN" =>
        /\ me.state = "Down"
        /\ me.is_down
        /\ Has(last.effects, "InvalidateRect")
        /\ invalid
        /\ Has(last.effects, "SetCapture")
        /\ capture
        /\ last.ret = "1"
        /\ ~Has(last.effects, "DefWindowProcW")

\* a press handled while an earlier press was still in progress and the
\* control showed Hover
C24_Witness ==
    /\ last.msg = "WM_LBUTTONDOWN"
    /\ last.old_state = "Hover"
    /\ last.old_is_down
    /\ me.state = "Down"

----------------------------------------------------------------------------
(* Claims about the flash timer, the leave tracking and the redraw requests *)

\* a step of the timer thread: a sleeping thread is gone
ThreadStep == ~(timers \subseteq timers')

\* C27: a step of the flash-timer thread leaves the control's fields and
\* everything else of the control alone; all it does is post one
\* UM_INVALIDATE.  So every change of the control's fields is made by a step
\* that is not the thread's.
C27_ThreadOnlyPosts ==
    [][ThreadStep =>
          /\ me' = me
          /\ posted' = posted + 1
          /\ UNCHANGED <<kind, capture, leave_armed, invalid, last>>]_vars

\* the thread spawned by the last tick has posted its tick
C27_Witness ==
    /\ last.msg = "UM_INVALIDATE"
    /\ Has(last.effects, "thread::spawn")
    /\ timers = {}
    /\ posted > 0
    /\ me.is_visual_down

\* C29: a WM_MOUSEMOVE calls TrackMouseEvent exactly when no request is
\* outstanding: a request made since the last WM_MOUSELEAVE is never made
\* again, and the first WM_MOUSEMOVE after a WM_MOUSELEAVE makes one.
C29_TrackOnce ==
    [][last' # last /\ last'.msg = "WM_MOUSEMOVE" =>
          (Has(last'.effects, "TrackMouseEvent") <=> ~leave_armed)]_vars

\* a WM_MOUSEMOVE arrived while the request was outstanding and made none
C29_Witness ==
    /\ last.msg = "WM_MOUSEMOVE"
    /\ ~Has(last.effects, "TrackMouseEvent")
    /\ leave_armed
    /\ me.track_mouse_leave

\* C30: a step that changes state, is_toggled or is_visual_down leaves the
\* update region not empty, so the next WM_PAINT shows the new value; the
\* tick that clears is_visual_down is such a step.
C30_RedrawPending ==
    [][(\/ me'.state # me.state
        \/ me'.is_toggled # me.is_toggled
        \/ me'.is_visual_down # me.is_visual_down) => invalid']_vars

\* the tick that ended the flash left a redraw pending
C30_Witness ==
    /\ last.msg = "UM_INVALIDATE"
    /\ ~Has(last.effects, "thread::spawn")
    /\ pressed_at # <<>>
    /\ ~me.is_visual_down
    /\ ~me.deferred_running
    /\ invalid

----------------------------------------------------------------------------
(* The end of the flash, checked under SpecFlash *)

\* the flash is over and nothing will tick again
FlashEnded ==
    /\ ~me.is_visual_down
    /\ ~me.deferred_running
    /\ posted = 0
    /\ timers = {}

----------------------------------------------------------------------------
(* The constructors, checked under SpecConstruct *)

\* C21: when CreateWindowExW fails in the constructor of a Button, a
\* ToggleButton, a TabBar or the chrome Window, the constructor returns
\* Err(WindowsInternal) to its caller and the process does not panic.
C21_CreationFailureReturned ==
    ctor.called /\ ctor.create_called /\ ~ctor.create_ok =>
        /\ ctor.ret = "Err"
        /\ ctor.error = "WindowsInternal"
        /\ ~ctor.panicked

----------------------------------------------------------------------------
(* The lifetime of a control, checked under SpecDrop *)

\* C26: handle_message is never entered for a control whose Box has been
\* dropped, whether a tick was queued, a timer thread was sleeping, or the
\* tick arrives later.
C26_NoDispatchAfterDrop == ~ctl.entered_freed

----------------------------------------------------------------------------
(* The UI thread's handlers, checked under SpecDispatch *)

\* C28: handlers run one at a time to completion: a handler is entered only
\* when no other handler is executing, also during a click callback that
\* minimizes or maximizes the window and during the parent's WM_SIZE that
\* moves the chrome buttons.
C28_OneHandlerAtATime == Len(disp) <= 1

----------------------------------------------------------------------------
(* Claims about the press, the ticks and the leave, checked under Spec *)

\* C33: a WM_LBUTTONUP calls click_cb, or toggles a ToggleButton, only if a
\* WM_LBUTTONDOWN was handled by the control since its previous
\* WM_LBUTTONUP; a release inside the control with no such press calls
\* neither.
C33_ClickNeedsPress ==
    last.msg = "WM_LBUTTONUP" /\ ~last.pending =>
        /\ ~Has(last.effects, "click_cb")
        /\ ~Has(last.effects, "toggle")
        /\ me.is_toggled = last.old_is_toggled

\* a release inside a ToggleButton with a click_cb and no press: no click
C33_Witness ==
    /\ kind = "ToggleButton"
    /\ last.msg = "WM_LBUTTONUP"
    /\ last.over
    /\ ~last.pending
    /\ last.click_cb
    /\ ~Has(last.effects, "click_cb")

\* the flash ticks outstanding: queued, or owed by a sleeping thread
Outstanding == posted + Cardinality(timers)

C36_LeaveKeepsPress ==
    /\ [][leave_armed /\ ~leave_armed' =>
            /\ me' = [me EXCEPT !.state = "None",
                                !.track_mouse_leave = FALSE]
            /\ UNCHANGED <<capture, press_pending, posted, timers>>]_vars
    /\ [](last.msg = "WM_LBUTTONUP" /\ last.over /\ last.pending
            /\ last.old_state = "None" /\ last.click_cb =>
                Count(last.effects, "click_cb") = 1)

\* the release inside the control found the press in progress although a
\* WM_MOUSELEAVE had reset the state, and clicked once
C36_Witness ==
    /\ last.msg = "WM_LBUTTONUP"
    /\ last.over
    /\ last.pending
    /\ last.old_is_down
    /\ last.old_state = "None"
    /\ Count(last.effects, "click_cb") = 1

----------------------------------------------------------------------------
(* Registration after a failure, checked under SpecRegistry *)

\* the pair is recorded as registered in the ComponentRegistry
Recorded(p) == p[1] \in DOMAIN registry /\ p[2] \in registry[p[1]]

\* C35: a register_class call whose RegisterClassW failed does not leave
\* the pair recorded as registered (so the next call for the pair registers
\* natively again, and Ok is returned only after a native success).
C35_FailureNotRecorded ==
    reg_last.called # {} /\ reg_last.native /\ ~reg_last.native_ok =>
        ~Recorded(reg_last.pair)

----------------------------------------------------------------------------
(* The background erase, checked under SpecDispatch *)

\* C32: a WM_ERASEBKGND delivered to a chrome button or to the chrome
\* window is answered as handled (1) by a handler that makes no call: no
\* drawing, no state change, no DefWindowProcW.
C32_EraseSuppressed ==
    \A i \in DOMAIN disp :
        disp[i].msg = "WM_ERASEBKGND" =>
            /\ disp[i].ret = "1"
            /\ disp[i].calls = <<>>

----------------------------------------------------------------------------
(* Failing platform calls: the wpanic_* wrappers on the UI thread and in
   the flash timer thread (SpecFail) *)

FlashKinds == {"Button", "ToggleButton"}

\* the platform calls a component makes on the UI thread while it handles
\* a message (the post of deferred_invalidate is PostTick below)
UICalls(owner) ==
    CASE owner \in FlashKinds ->
            {"InvalidateRect", "TrackMouseEvent", "ReleaseCapture",
             "BeginPaint", "EndPaint"}
      [] owner = "Window" ->
            {"MoveWindow", "BeginPaint", "EndPaint", "PostMessageW"}
      [] owner = "TabBar" ->
            {"MoveWindow", "BeginPaint", "PostMessageW"}

CallSite(owner, call, thread) ==
    [owner |-> owner, call |-> call, thread |-> thread]

\* the macro the call is wrapped in at that site
Wrapper(site) ==
    CASE site.thread = "timer" /\ site.owner = "Button" -> "none"
      [] site.call = "BeginPaint" -> "wpanic_ifnull"
      [] OTHER -> "wpanic_ifeq"

\* a panic that leaves a window procedure ends the process, by the abort
\* at the extern "system" boundary or by unwinding out of main
UIPanicOutcomes == {"abort", "unwind_main"}

\* what a call's result leads to: the wrappers panic on the thread that
\* made the call; an unwrapped result is dropped
Outcomes(site, ok) ==
    IF ok THEN {"returned"}
    ELSE CASE Wrapper(site) = "none" -> {"ignored"}
           [] site.thread = "timer" -> {"thread_panicked"}
           [] OTHER -> UIPanicOutcomes

ProcessAfter(outcome) ==
    IF outcome \in UIPanicOutcomes THEN "terminated" ELSE "running"

CallRecord(site, ok, outcome) ==
    [site |-> site, ok |-> ok, outcome |-> outcome]

InitFail ==
    fail = [process |-> "running",
            queued  |-> [k \in FlashKinds |-> 0],
            timers  |-> [k \in FlashKinds |-> 0],
            last    |-> <<>>]

\* any handler's platform call on the UI thread
PlatformCall ==
    \E owner \in Components, ok \in BOOLEAN :
      \E call \in UICalls(owner) :
        LET site == CallSite(owner, call, "ui") IN
        \E outcome \in Outcomes(site, ok) :
            /\ fail.process = "running"
            /\ fail' = [fail EXCEPT !.process = ProcessAfter(outcome),
                                    !.last = <<CallRecord(site, ok, outcome)>>]
            /\ UNCHANGED <<btnvars, chromevars, rectvars, regvars, tabvars,
                           appvars, lifevars, loop, wp>>

\* deferred_invalidate on a press: the checked post of the first tick
PostTick ==
    \E k \in FlashKinds, ok \in BOOLEAN :
        LET site == CallSite(k, "PostMessageW", "ui") IN
        \E outcome \in Outcomes(site, ok) :
            /\ fail.process = "running"
            /\ fail.queued[k] = 0
            /\ fail.timers[k] = 0
            /\ fail' = [fail EXCEPT
                          !.process = ProcessAfter(outcome),
                          !.queued[k] = IF ok THEN 1 ELSE 0,
                          !.last = <<CallRecord(site, ok, outcome)>>]
            /\ UNCHANGED <<btnvars, chromevars, rectvars, regvars, tabvars,
                           appvars, lifevars, loop, wp>>

\* the UM_INVALIDATE handler: invalidate_rect, then within the flash a
\* timer thread is spawned
TickHandler ==
    \E k \in FlashKinds, ok \in BOOLEAN, within \in BOOLEAN :
        LET site == CallSite(k, "InvalidateRect", "ui") IN
        \E outcome \in Outcomes(site, ok) :
            /\ fail.process = "running"
            /\ fail.queued[k] > 0
            /\ fail' = [fail EXCEPT
                          !.process = ProcessAfter(outcome),
                          !.queued[k] = @ - 1,
                          !.timers[k] = IF ok /\ within THEN 1 ELSE @,
                          !.last = <<CallRecord(site, ok, outcome)>>]
            /\ UNCHANGED <<btnvars, chromevars, rectvars, regvars, tabvars,
                           appvars, lifevars, loop, wp>>

\* the timer thread wakes and posts the next tick
TimerPost ==
    \E k \in FlashKinds, ok \in BOOLEAN :
        LET site == CallSite(k, "PostMessageW", "timer") IN
        \E outcome \in Outcomes(site, ok) :
            /\ fail.process = "running"
            /\ fail.timers[k] > 0
            /\ fail' = [fail EXCEPT
                          !.process = ProcessAfter(outcome),
                          !.timers[k] = @ - 1,
                          !.queued[k] = IF ok THEN @ + 1 ELSE @,
                          !.last = <<CallRecord(site, ok, outcome)>>]
            /\ UNCHANGED <<btnvars, chromevars, rectvars, regvars, tabvars,
                           appvars, lifevars, loop, wp>>

InitSpecFail ==
    /\ InitFail
    /\ IdleButton /\ IdleChrome /\ IdleRects /\ IdleRegistry /\ IdleTabBar
    /\ IdleApp /\ IdleLife /\ IdleLoop /\ IdleWndProc

NextFail ==
    \/ PlatformCall
    \/ PostTick
    \/ TickHandler
    \/ TimerPost

SpecFail == InitSpecFail /\ [][NextFail]_vars

\* C31: after any failing platform call, on the UI thread or in the flash
\* timer thread, the process is terminated.
C31_FailureIsFatal ==
    \A i \in DOMAIN fail.last :
        ~fail.last[i].ok => fail.process = "terminated"

----------------------------------------------------------------------------
(* The message loop of main after the chrome window is destroyed
   (SpecLoop: the application part with the loop's exit, under fairness) *)

\* platform: which check GetMessageW makes first, that of its window
\* handle or that of a posted quit
Platforms == {"handle_first", "quit_first"}

\* platform: what GetMessageW(&mut msg, window.hwnd, 0, 0) returns once
\* window.hwnd is destroyed: -1 (invalid window handle), or 0 when it
\* retrieves the WM_QUIT that PostQuitMessage posted
GetMessageW_destroyed(platform, a) ==
    IF a.quit /\ platform = "quit_first" THEN 0 ELSE -1

\* slip: the loop runs while GetMessageW returns nonzero
LoopContinues_nonzero(ret) == ret # 0

\* while GetMessageW(..) == TRUE
LoopContinues(ret) == ret = 1

InitLoop ==
    \E platform \in Platforms :
        loop = [platform |-> platform, at |-> "GetMessageW", last |-> <<>>]

\* an iteration of the loop after the window is destroyed
GetMessageW_after_destroy ==
    LET ret == GetMessageW_destroyed(loop.platform, app) IN
        /\ ~app.alive
        /\ loop.at = "GetMessageW"
        /\ loop' = [loop EXCEPT
                      !.at = IF LoopContinues(ret) THEN "GetMessageW"
                             ELSE "exited",
                      !.last = <<ret>>]
        /\ UNCHANGED <<btnvars, chromevars, rectvars, regvars, tabvars,
                       appvars, lifevars, fail, wp>>

InitSpecLoop ==
    /\ InitApp /\ InitLoop
    /\ IdleButton /\ IdleChrome /\ IdleRects /\ IdleRegistry /\ IdleTabBar
    /\ IdleLife /\ IdleFail /\ IdleWndProc

NextLoop ==
    \/ Chrome_WM_LBUTTONDOWN
    \/ Chrome_WM_LBUTTONUP
    \/ PlatformShow
    \/ PlatformClose
    \/ Dispatch_WM_CLOSE
    \/ GetMessageW_after_destroy

\* the main thread keeps running the loop: a queued WM_CLOSE is dispatched
\* and GetMessageW on the destroyed window returns
LoopFairness ==
    /\ WF_vars(Dispatch_WM_CLOSE)
    /\ WF_vars(GetMessageW_after_destroy)

SpecLoop == InitSpecLoop /\ [][NextLoop]_vars /\ LoopFairness

\* C37: once the chrome window is destroyed the quit has been posted, and
\* the message loop of main ends: it does not stay in GetMessageW for the
\* destroyed window.
C37_LoopEnds ==
    [](~app.alive => app.quit /\ <>(loop.at = "exited"))

\* the loop ended on GetMessageW's -1 for the destroyed window handle
C37_Witness ==
    /\ ~app.alive
    /\ app.quit
    /\ loop.at = "exited"
    /\ loop.last = <<-1>>

----------------------------------------------------------------------------
(* The window procedures: wnd_proc_gen! (macros.rs) and wnd_proc (main.rs),
   and the component pointer in GWLP_USERDATA (SpecWndProc) *)

Hwnds == {"hwnd1", "hwnd2"}

ComponentPtrs == {"component1", "component2"}

\* the window procedure of a class: Window's own, or the macro's
WndProcs == {"wnd_proc", "wnd_proc_gen"}

\* platform: the messages a window can be sent in each phase of its life;
\* a top-level window is asked its size limits before WM_NCCREATE
Messages(phase, proc) ==
    CASE phase = "creating" ->
            IF proc = "wnd_proc" THEN {"WM_GETMINMAXINFO", "WM_NCCREATE"}
            ELSE {"WM_NCCREATE"}
      [] phase = "nccreated" -> {"WM_NCCALCSIZE", "WM_CREATE"}
      [] phase = "created" -> {"WM_NCCALCSIZE", "WM_SIZE", "WM_PAINT"}
      [] OTHER -> {}

PhaseAfter(phase, message) ==
    CASE message = "WM_NCCREATE" -> "nccreated"
      [] message = "WM_CREATE" -> "created"
      [] OTHER -> phase

\* slip: the pointer is stored, the component's hwnd field is not set
StoreComponent_no_hwnd(w, hwnd) ==
    [w EXCEPT !.userdata[hwnd] = w.params[hwnd]]

\* component = lpCreateParams; (*component).hwnd = hwnd;
\* SetWindowLongPtrW(hwnd, GWLP_USERDATA, component)
StoreComponent(w, hwnd) ==
    [w EXCEPT !.hwnd_field[w.params[hwnd]] = hwnd,
              !.userdata[hwnd] = w.params[hwnd]]

\* the procedure wnd_proc_gen! generates
wnd_proc_gen(w, hwnd, message, wparam) ==
    LET creation == message \in {"WM_NCCREATE", "WM_CREATE"}
        component == IF creation THEN w.params[hwnd] ELSE w.userdata[hwnd]
    IN  [w  |-> IF creation THEN StoreComponent(w, hwnd) ELSE w,
         component |-> component,
         to |-> IF component # "null" THEN "handle_message"
                ELSE "DefWindowProcW"]

\* the chrome window's procedure
wnd_proc(w, hwnd, message, wparam) ==
    LET creation == message \in {"WM_NCCREATE", "WM_CREATE"}
        window == IF creation THEN w.params[hwnd] ELSE w.userdata[hwnd]
    IN  [w  |-> IF creation THEN StoreComponent(w, hwnd) ELSE w,
         component |-> window,
         to |-> IF window # "null" THEN "handle_message"
                ELSE IF message = "WM_NCCALCSIZE" /\ wparam = 1
                THEN "return 0"
                ELSE "DefWindowProcW"]

InitWndProc ==
    wp = [phase     |-> [h \in Hwnds |-> "free"],
          proc      |-> [h \in Hwnds |-> "wnd_proc"],
          params    |-> [h \in Hwnds |-> "null"],
          userdata  |-> [h \in Hwnds |-> "null"],
          hwnd_field |-> [c \in ComponentPtrs |-> "null"],
          last      |-> <<>>]

\* a constructor boxes a new component and calls CreateWindowExW with the
\* box's address as lpCreateParams
CreateWindowExW ==
    \E hwnd \in Hwnds, component \in ComponentPtrs, proc \in WndProcs :
        /\ wp.phase[hwnd] = "free"
        /\ \A h \in Hwnds : wp.params[h] # component
        /\ wp' = [wp EXCEPT !.phase[hwnd] = "creating",
                            !.proc[hwnd] = proc,
                            !.params[hwnd] = component]
        /\ UNCHANGED <<btnvars, chromevars, rectvars, regvars, tabvars,
                       appvars, lifevars, fail, loop>>

\* the platform calls the class's window procedure with a message
CallWndProc ==
    \E hwnd \in Hwnds, wparam \in {0, 1} :
      \E message \in Messages(wp.phase[hwnd], wp.proc[hwnd]) :
        LET r == IF wp.proc[hwnd] = "wnd_proc"
                 THEN wnd_proc(wp, hwnd, message, wparam)
                 ELSE wnd_proc_gen(wp, hwnd, message, wparam)
        IN
        /\ message # "WM_NCCALCSIZE" => wparam = 0
        /\ wp' = [r.w EXCEPT
                    !.phase[hwnd] = PhaseAfter(@, message),
                    !.last = <<[hwnd |-> hwnd,
                                message |-> message,
                                wparam |-> wparam,
                                phase |-> PhaseAfter(wp.phase[hwnd], message),
                                stored |-> r.w.userdata[hwnd],
                                to |-> r.to,
                                self_hwnd |->
                                    IF r.component = "null" THEN "null"
                                    ELSE r.w.hwnd_field[r.component]]>>]
        /\ UNCHANGED <<btnvars, chromevars, rectvars, regvars, tabvars,
                       appvars, lifevars, fail, loop>>

InitSpecWndProc ==
    /\ InitWndProc
    /\ IdleButton /\ IdleChrome /\ IdleRects /\ IdleRegistry /\ IdleTabBar
    /\ IdleApp /\ IdleLife /\ IdleFail /\ IdleLoop

NextWndProc ==
    \/ CreateWindowExW
    \/ CallWndProc

SpecWndProc == InitSpecWndProc /\ [][NextWndProc]_vars

\* C38: handle_message runs only for a message at or after the creation
\* message that stored the component pointer in the window's user data; a
\* message before it, or to a window with no stored pointer, goes to
\* DefWindowProcW; and when handle_message runs the component's hwnd field
\* is the window the message was sent to.
C38_HandlerAfterCreation ==
    \A i \in DOMAIN wp.last :
        LET l == wp.last[i] IN
        /\ l.to = "handle_message" =>
                /\ l.phase \in {"nccreated", "created"}
                /\ l.stored # "null"
                /\ l.self_hwnd = l.hwnd
        /\ l.phase = "creating" \/ l.stored = "null" =>
                l.to = "DefWindowProcW"

\* the second window's WM_NCCALCSIZE reached its own component while the
\* first window's component holds the first window
C38_Witness ==
    /\ wp.last # <<>>
    /\ wp.last[1].to = "handle_message"
    /\ wp.last[1].hwnd = "hwnd2"
    /\ wp.last[1].message = "WM_NCCALCSIZE"
    /\ wp.last[1].wparam = 1
    /\ wp.last[1].self_hwnd = "hwnd2"
    /\ wp.phase["hwnd1"] = "created"
    /\ wp.hwnd_field[wp.userdata["hwnd1"]] = "hwnd1"

====
